---------------------------- MODULE Spec2Model ----------------------------
(***************************************************************************)
(* Model of autovaluate-pro (latest revision of each file).                *)
(*                                                                         *)
(* utils/dataSanitizer: parseCSV, calculateRelevance, smartFilter,         *)
(* aggregateData and sanitizeHistoricalData (specification Spec).          *)
(* utils/cacheManager and services/geminiService: the valuation cache in   *)
(* session storage and analyzeCarValue around the external call            *)
(* (specification CacheSpec).  App, components/AuthGate and                *)
(* hooks/useSessionTimeout: login, logout, the inactivity timers and the   *)
(* page reload on timeout (specification SessionSpec).                     *)
(*                                                                         *)
(* A JavaScript string is a sequence of one-character strings.  A JS       *)
(* number is an exact rational <<n, d>> with d > 0 in lowest terms; the    *)
(* values with d = 0 are NaN (<<0, 0>>) and the two infinities.  Binary    *)
(* floating-point rounding is not modelled.  An object is a function whose *)
(* domain is the set of properties that hold a value other than undefined. *)
(***************************************************************************)
EXTENDS Integers, Sequences, FiniteSets, TLC

VARIABLES
  csvData,          \* argument: the ledger text
  targetCar,        \* argument: [brand, model]
  maxRecords,       \* argument of smartFilter
  pc,               \* which function has returned
  allRecords,       \* parseCSV's return value
  scored,           \* <<[record, score]>> after a calculateRelevance call
  relevantRecords,  \* smartFilter's return value
  aggregated,       \* aggregateData's return value
  exactMatches,     \* sanitizeHistoricalData's local exactMatches
  result,           \* sanitizeHistoricalData's return value
  sensitiveText,    \* argument text of containsSensitiveData
  flagged,          \* containsSensitiveData's return value
  returned,         \* history: <<[csvData, targetCar, result]>>, one entry
                    \* per sanitizeHistoricalData call that has returned
  now,              \* Date.now(), in milliseconds
  ticks,            \* how many times the clock has been advanced
  sessionStorage,   \* window.sessionStorage: key -> stored value
  written,          \* history: cache key -> [data, at] of its last cacheResult
  lastRead,         \* the last getCachedResult call: [car, at, value]
  call,             \* the analyzeCarValue call under way or last finished
  isAuthenticated,  \* AuthGate state
  password,         \* AuthGate state: the password field
  historyData,      \* App state: the ledger text
  valuationResult,  \* App state
  error,            \* App state: null or [message]
  isLoading,        \* App state
  showTimeoutWarning, \* App state
  mounted,          \* App, and with it useSessionTimeout, is mounted
  renderPending,    \* App has rendered and the hook's effect has yet to re-run
  timers,           \* pending setTimeout timers: set of [id, kind, due]
  timeoutRef,       \* timeoutRef.current: a timer id, 0 for null
  warningRef,       \* warningRef.current: a timer id, 0 for null
  lastActivityRef,  \* lastActivityRef.current
  lastEventAt,      \* history: time of the last activity event, -1 for none
  fired             \* history: <<[kind, at]>>, the hook callbacks fired

\* the state of a sanitizer call
sanitizerVars == <<csvData, targetCar, maxRecords, pc, allRecords, scored,
                   relevantRecords, aggregated, exactMatches, result,
                   sensitiveText, flagged, returned>>

\* the state of the browser session: clock, storage and their histories
sessionVars == <<now, ticks, sessionStorage, written, lastRead, call,
                 isAuthenticated, password, historyData, valuationResult, error,
                 isLoading, showTimeoutWarning, mounted, renderPending, timers,
                 timeoutRef, warningRef, lastActivityRef, lastEventAt, fired>>

vars == <<sanitizerVars, sessionVars>>

(***************************************************************************)
(* Bounds of the model.                                                    *)
(***************************************************************************)
MaxRows == 2
MaxTextLen == 4
MaxK == 2
MaxTokens == 3
MaxCalls == 3
MaxTicks == 3
MaxAnalyses == 2
MaxIdleSteps == 2

(***************************************************************************)
(* Characters and the String.prototype methods the sanitizer uses.         *)
(***************************************************************************)
UpperAlpha ==
  <<"A","B","C","D","E","F","G","H","I","J","K","L","M",
    "N","O","P","Q","R","S","T","U","V","W","X","Y","Z">>
LowerAlpha ==
  <<"a","b","c","d","e","f","g","h","i","j","k","l","m",
    "n","o","p","q","r","s","t","u","v","w","x","y","z">>
Digits == <<"0","1","2","3","4","5","6","7","8","9">>

IsWhitespace(c) == c \in {" ", "\n", "\t", "\r"}

IsDigit(c) == \E i \in 1..10 : Digits[i] = c

DigitVal(c) == (CHOOSE i \in 1..10 : Digits[i] = c) - 1

toLowerChar(c) ==
  IF \E i \in 1..26 : UpperAlpha[i] = c
    THEN LowerAlpha[CHOOSE i \in 1..26 : UpperAlpha[i] = c]
    ELSE c

toUpperChar(c) ==
  IF \E i \in 1..26 : LowerAlpha[i] = c
    THEN UpperAlpha[CHOOSE i \in 1..26 : LowerAlpha[i] = c]
    ELSE c

toLowerCase(s) == [i \in 1..Len(s) |-> toLowerChar(s[i])]

toUpperCase(s) == [i \in 1..Len(s) |-> toUpperChar(s[i])]

Min(S) == CHOOSE x \in S : \A y \in S : x <= y
Max(S) == CHOOSE x \in S : \A y \in S : x >= y

trim(s) ==
  LET keep == {i \in 1..Len(s) : ~IsWhitespace(s[i])}
  IN  IF keep = {} THEN <<>> ELSE SubSeq(s, Min(keep), Max(keep))

RECURSIVE split(_, _)
split(s, sep) ==
  LET at == {i \in 1..Len(s) : s[i] = sep}
  IN  IF at = {} THEN <<s>>
      ELSE <<SubSeq(s, 1, Min(at) - 1)>>
             \o split(SubSeq(s, Min(at) + 1, Len(s)), sep)

includes(s, sub) ==
  \E i \in 0..(Len(s) - Len(sub)) : SubSeq(s, i + 1, i + Len(sub)) = sub

RECURSIVE join(_, _)
join(parts, sep) ==
  IF Len(parts) = 0 THEN <<>>
  ELSE IF Len(parts) = 1 THEN parts[1]
  ELSE parts[1] \o sep \o join(Tail(parts), sep)

(***************************************************************************)
(* Numbers.                                                                *)
(***************************************************************************)
NaN == <<0, 0>>

Abs(n) == IF n < 0 THEN -n ELSE n

Sgn(n) == IF n < 0 THEN -1 ELSE IF n > 0 THEN 1 ELSE 0

RECURSIVE GCD(_, _)
GCD(a, b) == IF b = 0 THEN a ELSE GCD(b, a % b)

Num(n, d) ==
  IF d = 0 THEN <<Sgn(n), 0>>
  ELSE LET g == GCD(Abs(n), Abs(d))
       IN  <<(Sgn(d) * n) \div g, Abs(d) \div g>>

Whole(n) == <<n, 1>>

IsNaN(x) == x = NaN

IsFinite(x) == x[2] # 0

Add(x, y) ==
  IF IsFinite(x) /\ IsFinite(y) THEN Num(x[1] * y[2] + y[1] * x[2], x[2] * y[2])
  ELSE IF IsNaN(x) \/ IsNaN(y) \/ (~IsFinite(x) /\ ~IsFinite(y) /\ x # y) THEN NaN
  ELSE IF IsFinite(x) THEN y ELSE x

Sub(x, y) == Add(x, <<-y[1], y[2]>>)

Mul(x, y) ==
  IF IsFinite(x) /\ IsFinite(y) THEN Num(x[1] * y[1], x[2] * y[2])
  ELSE <<Sgn(x[1]) * Sgn(y[1]), 0>>

Div(x, y) ==
  IF IsFinite(x) /\ IsFinite(y) THEN Num(x[1] * y[2], x[2] * y[1])
  ELSE IF IsFinite(y) THEN <<x[1] * (IF y[1] < 0 THEN -1 ELSE 1), 0>>
  ELSE IF IsFinite(x) THEN Whole(0)
  ELSE NaN

\* x > 0, false for NaN
Positive(x) == x[1] > 0

\* ToBoolean of a number: false for 0 and NaN
TruthyNum(x) == x[1] # 0

\* ToBoolean of a string: false for ""
TruthyStr(s) == Len(s) > 0

RECURSIVE Pow10(_)
Pow10(k) == IF k = 0 THEN 1 ELSE 10 * Pow10(k - 1)

RECURSIVE DigitsValue(_)
DigitsValue(ds) ==
  IF Len(ds) = 0 THEN 0
  ELSE 10 * DigitsValue(SubSeq(ds, 1, Len(ds) - 1)) + DigitVal(ds[Len(ds)])

\* the longest prefix of s made of decimal digits
DigitPrefix(s) ==
  LET stop == {i \in 1..Len(s) : ~IsDigit(s[i])}
  IN  IF stop = {} THEN s ELSE SubSeq(s, 1, Min(stop) - 1)

(***************************************************************************)
(* parseFloat: leading white space is skipped, then the longest prefix     *)
(* made of an optional sign, digits and an optional fraction is converted; *)
(* no digit at all gives NaN.                                              *)
(* parseFloat(undefined) is NaN.  Exponents and "Infinity" are not         *)
(* modelled; no enumerated cell uses them.                                 *)
(***************************************************************************)
parseFloat(hasValue, value) ==
  IF ~hasValue THEN NaN
  ELSE
    LET lead == {i \in 1..Len(value) : ~IsWhitespace(value[i])}
        s0   == IF lead = {} THEN <<>> ELSE SubSeq(value, Min(lead), Len(value))
        neg  == Len(s0) > 0 /\ s0[1] = "-"
        s1   == IF Len(s0) > 0 /\ s0[1] \in {"-", "+"} THEN Tail(s0) ELSE s0
        ip   == DigitPrefix(s1)
        s2   == SubSeq(s1, Len(ip) + 1, Len(s1))
        fp   == IF Len(s2) > 0 /\ s2[1] = "." THEN DigitPrefix(Tail(s2)) ELSE <<>>
        mag  == Num(DigitsValue(ip) * Pow10(Len(fp)) + DigitsValue(fp), Pow10(Len(fp)))
    IN  IF Len(ip) + Len(fp) = 0 THEN NaN
        ELSE IF neg THEN <<-mag[1], mag[2]>> ELSE mag

(***************************************************************************)
(* Objects with optional properties.                                       *)
(***************************************************************************)
EmptyRecord == [f \in {} |-> <<>>]

Has(r, f) == f \in DOMAIN r

\* r.f = v, where v may be undefined (hasValue = FALSE)
SetProp(r, f, hasValue, v) ==
  IF hasValue THEN (f :> v) @@ r
  ELSE [g \in DOMAIN r \ {f} |-> r[g]]

(***************************************************************************)
(* parseCSV                                                                *)
(***************************************************************************)
TrimAll(cells) == [i \in 1..Len(cells) |-> trim(cells[i])]

Lit_brand == <<"b","r","a","n","d">>
Lit_model == <<"m","o","d","e","l">>
Lit_variant == <<"v","a","r","i","a","n","t">>
Lit_year == <<"y","e","a","r">>
Lit_date == <<"d","a","t","e">>
Lit_bought == <<"b","o","u","g","h","t">>
Lit_purchase == <<"p","u","r","c","h","a","s","e">>
Lit_sold == <<"s","o","l","d">>
Lit_sale == <<"s","a","l","e">>

\* the body of the headers.forEach callback
SetFromHeader(record, header, hasValue, value) ==
  LET r1 == IF includes(header, Lit_brand)
              THEN SetProp(record, "brand", hasValue, value) ELSE record
      r2 == IF includes(header, Lit_model)
              THEN SetProp(r1, "model", hasValue, value) ELSE r1
      r3 == IF includes(header, Lit_variant)
              THEN SetProp(r2, "variant", hasValue, value) ELSE r2
      r4 == IF includes(header, Lit_year)
              THEN SetProp(r3, "year", hasValue, value) ELSE r3
      r5 == IF includes(header, Lit_date)
              THEN SetProp(r4, "date", hasValue, value) ELSE r4
      r6 == IF includes(header, Lit_bought) \/ includes(header, Lit_purchase)
              THEN SetProp(r5, "boughtPrice", TRUE, parseFloat(hasValue, value)) ELSE r5
      r7 == IF includes(header, Lit_sold) \/ includes(header, Lit_sale)
              THEN SetProp(r6, "soldPrice", TRUE, parseFloat(hasValue, value)) ELSE r6
  IN  r7

RECURSIVE BuildRecord(_, _, _, _)
BuildRecord(headers, values, index, record) ==
  IF index > Len(headers) THEN record
  ELSE BuildRecord(headers, values, index + 1,
         SetFromHeader(record, headers[index], index <= Len(values),
                       IF index <= Len(values) THEN values[index] ELSE <<>>))

\* parseCSV that leaves out the rows with fewer cells than the header
parseCSV_RejectShort(text) ==
  IF ~TruthyStr(trim(text)) THEN <<>>
  ELSE
    LET lines == split(trim(text), "\n")
    IN  IF Len(lines) < 2 THEN <<>>
        ELSE
          LET headers == TrimAll(split(toLowerCase(lines[1]), ","))
              IsFull(line) == Len(split(line, ",")) >= Len(headers)
              rows == SelectSeq(Tail(lines), IsFull)
          IN  [k \in 1..Len(rows) |->
                 BuildRecord(headers, TrimAll(split(rows[k], ",")), 1, EmptyRecord)]

\* parseCSV that splits the untrimmed text
parseCSV_NoTrim(text) ==
  IF ~TruthyStr(trim(text)) THEN <<>>
  ELSE
    LET lines == split(text, "\n")
    IN  IF Len(lines) < 2 THEN <<>>
        ELSE
          LET headers == TrimAll(split(toLowerCase(lines[1]), ","))
          IN  [k \in 1..(Len(lines) - 1) |->
                 BuildRecord(headers, TrimAll(split(lines[k + 1], ",")), 1, EmptyRecord)]

parseCSV(text) ==
  IF ~TruthyStr(trim(text)) THEN <<>>
  ELSE
    LET lines == split(trim(text), "\n")
    IN  IF Len(lines) < 2 THEN <<>>
        ELSE
          LET headers == TrimAll(split(toLowerCase(lines[1]), ","))
          IN  [k \in 1..(Len(lines) - 1) |->
                 BuildRecord(headers, TrimAll(split(lines[k + 1], ",")), 1, EmptyRecord)]

(***************************************************************************)
(* calculateRelevance                                                      *)
(***************************************************************************)
\* calculateRelevance whose partial match tests one direction only
calculateRelevance_OneWay(record, target) ==
  LET brandScore ==
        IF Has(record, "brand")
           /\ toLowerCase(record.brand) = toLowerCase(target.brand)
          THEN 50 ELSE 0
      modelScore ==
        IF Has(record, "model")
           /\ toLowerCase(record.model) = toLowerCase(target.model)
          THEN 100 ELSE 0
      partialScore ==
        IF Has(record, "model") /\ TruthyStr(record.model) /\ TruthyStr(target.model)
           /\ includes(toLowerCase(record.model), toLowerCase(target.model))
          THEN 75 ELSE 0
  IN  brandScore + modelScore + partialScore

\* calculateRelevance without the brand test
calculateRelevance_ModelOnly(record, target) ==
  LET modelScore ==
        IF Has(record, "model")
           /\ toLowerCase(record.model) = toLowerCase(target.model)
          THEN 100 ELSE 0
      partialScore ==
        IF Has(record, "model") /\ TruthyStr(record.model) /\ TruthyStr(target.model)
           /\ (\/ includes(toLowerCase(record.model), toLowerCase(target.model))
               \/ includes(toLowerCase(target.model), toLowerCase(record.model)))
          THEN 75 ELSE 0
  IN  modelScore + partialScore

\* line 78 with only the target's model tested
PartialMatchGuard_TargetOnly(record, target) == TruthyStr(target.model)

\* line 78: record.model && target.model
PartialMatchGuard(record, target) ==
  Has(record, "model") /\ TruthyStr(record.model) /\ TruthyStr(target.model)

\* A TypeError is raised where a method is called on undefined.  The one
\* call on a record field made without ?. is record.model.toLowerCase() at
\* line 79, reached when the test of line 78 passes.
calculateRelevanceRaises(record, target) ==
  PartialMatchGuard(record, target) /\ ~Has(record, "model")

calculateRelevance(record, target) ==
  LET brandScore ==
        IF Has(record, "brand")
           /\ toLowerCase(record.brand) = toLowerCase(target.brand)
          THEN 50 ELSE 0
      modelScore ==
        IF Has(record, "model")
           /\ toLowerCase(record.model) = toLowerCase(target.model)
          THEN 100 ELSE 0
      partialScore ==
        IF PartialMatchGuard(record, target)
           /\ (\/ includes(toLowerCase(record.model), toLowerCase(target.model))
               \/ includes(toLowerCase(target.model), toLowerCase(record.model)))
          THEN 75 ELSE 0
  IN  brandScore + modelScore + partialScore

(***************************************************************************)
(* smartFilter                                                             *)
(***************************************************************************)
\* the slice that keeps the whole array
slice0_All(s, end) == s

\* Array.prototype.slice(0, end)
slice0(s, end) ==
  LET e == IF end < 0 THEN (IF Len(s) + end < 0 THEN 0 ELSE Len(s) + end)
           ELSE IF end > Len(s) THEN Len(s) ELSE end
  IN  SubSeq(s, 1, e)

\* the insertion that puts an item before the items of equal score
InsertByScore_TiesFirst(sorted, x) ==
  LET k == Cardinality({i \in 1..Len(sorted) : sorted[i].score > x.score})
  IN  SubSeq(sorted, 1, k) \o <<x>> \o SubSeq(sorted, k + 1, Len(sorted))

\* Array.prototype.sort((a, b) => b.score - a.score), a stable sort
InsertByScore(sorted, x) ==
  LET k == Cardinality({i \in 1..Len(sorted) : sorted[i].score >= x.score})
  IN  SubSeq(sorted, 1, k) \o <<x>> \o SubSeq(sorted, k + 1, Len(sorted))

RECURSIVE SortByScore(_)
SortByScore(items) ==
  IF Len(items) = 0 THEN <<>>
  ELSE InsertByScore(SortByScore(SubSeq(items, 1, Len(items) - 1)), items[Len(items)])

ScoreAll(records, target) ==
  [i \in 1..Len(records) |->
     [record |-> records[i], score |-> calculateRelevance(records[i], target)]]

IsRelevant(item) == item.score > 0

\* the map callback of line 96 raises for some record
smartFilterRaises(records, target) ==
  \E i \in 1..Len(records) : calculateRelevanceRaises(records[i], target)

\* smartFilter that does not truncate
smartFilter_NoSlice(records, target, maxRecs) ==
  LET scoredItems == SortByScore(SelectSeq(ScoreAll(records, target), IsRelevant))
  IN  [i \in 1..Len(scoredItems) |-> scoredItems[i].record]

\* smartFilter that keeps the ledger order
smartFilter_Unsorted(records, target, maxRecs) ==
  LET scoredItems == slice0(SelectSeq(ScoreAll(records, target), IsRelevant), maxRecs)
  IN  [i \in 1..Len(scoredItems) |-> scoredItems[i].record]

smartFilter(records, target, maxRecs) ==
  LET scoredItems == SortByScore(SelectSeq(ScoreAll(records, target), IsRelevant))
      top == slice0(scoredItems, maxRecs)
  IN  [i \in 1..Len(top) |-> top[i].record]

(***************************************************************************)
(* aggregateData                                                           *)
(***************************************************************************)
Lit_Unknown == <<"U","n","k","n","o","w","n">>

GroupKey(record) ==
  (IF Has(record, "brand") /\ TruthyStr(record.brand) THEN record.brand ELSE Lit_Unknown)
    \o <<" ">> \o
  (IF Has(record, "model") /\ TruthyStr(record.model) THEN record.model ELSE Lit_Unknown)

\* the distinct elements of s in order of first occurrence (Map keys, Set)
RECURSIVE Distinct(_)
Distinct(s) ==
  IF Len(s) = 0 THEN <<>>
  ELSE LET front == Distinct(SubSeq(s, 1, Len(s) - 1))
           x == s[Len(s)]
       IN  IF \E i \in 1..Len(front) : front[i] = x THEN front ELSE Append(front, x)

RECURSIVE Sum(_)
Sum(xs) == IF Len(xs) = 0 THEN Whole(0) ELSE Add(Sum(SubSeq(xs, 1, Len(xs) - 1)), xs[Len(xs)])

Mean(xs) == Div(Sum(xs), Whole(Len(xs)))

\* the margin taken over the sold price
MarginOf_OverSold(r) ==
  Mul(Div(Sub(r.soldPrice, r.boughtPrice), r.soldPrice), Whole(100))

MarginOf(r) ==
  Mul(Div(Sub(r.soldPrice, r.boughtPrice), r.boughtPrice), Whole(100))

\* the test that takes every price other than 0, NaN included, as a price
AggregateEligible_NaNPasses(r) ==
  /\ Has(r, "boughtPrice") /\ r.boughtPrice # Whole(0)
  /\ Has(r, "soldPrice") /\ r.soldPrice # Whole(0)
  /\ r.boughtPrice[1] >= 0

\* r.boughtPrice && r.soldPrice && r.boughtPrice > 0
AggregateEligible(r) ==
  /\ Has(r, "boughtPrice") /\ TruthyNum(r.boughtPrice)
  /\ Has(r, "soldPrice") /\ TruthyNum(r.soldPrice)
  /\ Positive(r.boughtPrice)

HasYear(r) == Has(r, "year") /\ TruthyStr(r.year)

MapMargin(rs) == [i \in 1..Len(rs) |-> MarginOf(rs[i])]

\* the insertion that puts a group before the groups of equal count
InsertByCount_TiesFirst(sorted, x) ==
  LET k == Cardinality({i \in 1..Len(sorted) : sorted[i].count > x.count})
  IN  SubSeq(sorted, 1, k) \o <<x>> \o SubSeq(sorted, k + 1, Len(sorted))

InsertByCount(sorted, x) ==
  LET k == Cardinality({i \in 1..Len(sorted) : sorted[i].count >= x.count})
  IN  SubSeq(sorted, 1, k) \o <<x>> \o SubSeq(sorted, k + 1, Len(sorted))

RECURSIVE SortByCount(_)
SortByCount(items) ==
  IF Len(items) = 0 THEN <<>>
  ELSE InsertByCount(SortByCount(SubSeq(items, 1, Len(items) - 1)), items[Len(items)])

\* the callback that counts the margin-eligible records only
AggregateGroup_CountEligible(records, brandModel) ==
  LET InGroup(r) == GroupKey(r) = brandModel
      groupRecords == SelectSeq(records, InGroup)
      margins == MapMargin(SelectSeq(groupRecords, AggregateEligible))
      withYear == SelectSeq(groupRecords, HasYear)
      years == Distinct([i \in 1..Len(withYear) |-> withYear[i].year])
  IN  IF Len(margins) > 0
        THEN <<[brandModel |-> brandModel,
                count |-> Len(margins),
                avgMargin |-> Mean(margins),
                years |-> years]>>
        ELSE <<>>

\* the callback without the margins.length > 0 guard
AggregateGroup_NoGuard(records, brandModel) ==
  LET InGroup(r) == GroupKey(r) = brandModel
      groupRecords == SelectSeq(records, InGroup)
      margins == MapMargin(SelectSeq(groupRecords, AggregateEligible))
      withYear == SelectSeq(groupRecords, HasYear)
      years == Distinct([i \in 1..Len(withYear) |-> withYear[i].year])
  IN  <<[brandModel |-> brandModel,
         count |-> Len(groupRecords),
         avgMargin |-> Mean(margins),
         years |-> years]>>

\* the groups.forEach callback: <<>> when nothing is pushed
AggregateGroup(records, brandModel) ==
  LET InGroup(r) == GroupKey(r) = brandModel
      groupRecords == SelectSeq(records, InGroup)
      margins == MapMargin(SelectSeq(groupRecords, AggregateEligible))
      withYear == SelectSeq(groupRecords, HasYear)
      years == Distinct([i \in 1..Len(withYear) |-> withYear[i].year])
  IN  IF Len(margins) > 0
        THEN <<[brandModel |-> brandModel,
                count |-> Len(groupRecords),
                avgMargin |-> Mean(margins),
                years |-> years]>>
        ELSE <<>>

RECURSIVE AggregateGroups(_, _)
AggregateGroups(records, keys) ==
  IF Len(keys) = 0 THEN <<>>
  ELSE AggregateGroup(records, Head(keys)) \o AggregateGroups(records, Tail(keys))

aggregateData(records) ==
  LET keys == Distinct([i \in 1..Len(records) |-> GroupKey(records[i])])
  IN  SortByCount(AggregateGroups(records, keys))

(***************************************************************************)
(* Number formatting                                                       *)
(***************************************************************************)
RECURSIVE IntToStr(_)
IntToStr(n) ==
  IF n < 10 THEN <<Digits[n + 1]>>
  ELSE IntToStr(n \div 10) \o <<Digits[(n % 10) + 1]>>

RECURSIVE PadDigits(_, _)
PadDigits(n, width) ==
  IF width = 0 THEN <<>>
  ELSE PadDigits(n \div 10, width - 1) \o <<Digits[(n % 10) + 1]>>

\* Number.prototype.toFixed(digits), digits >= 1: round half away from zero
toFixed(x, digits) ==
  IF IsNaN(x) THEN <<"N","a","N">>
  ELSE IF ~IsFinite(x) THEN (IF x[1] < 0 THEN <<"-">> ELSE <<>>) \o <<"I","n","f","i","n","i","t","y">>
  ELSE
    LET scale == Pow10(digits)
        n == (2 * Abs(x[1]) * scale + x[2]) \div (2 * x[2])
    IN  (IF x[1] < 0 THEN <<"-">> ELSE <<>>)
          \o IntToStr(n \div scale) \o <<".">> \o PadDigits(n % scale, digits)

(***************************************************************************)
(* sanitizeHistoricalData                                                  *)
(***************************************************************************)
Null == [null |-> TRUE]

DefaultMaxRecords == 50
LakhUnit == 100000
MaxListed == 5

Lit_NA == <<"N","/","A">>
Lit_similar == <<" ","s","i","m","i","l","a","r"," ">>
Lit_transactions == <<" ","t","r","a","n","s","a","c","t","i","o","n","s">>
Lit_brandAverage == <<" ","t","r","a","n","s","a","c","t","i","o","n","s"," ","(","b","r","a","n","d"," ","a","v","e","r","a","g","e",")">>

IsExactMatch(r, target) ==
  /\ Has(r, "brand") /\ toLowerCase(r.brand) = toLowerCase(target.brand)
  /\ Has(r, "model") /\ toLowerCase(r.model) = toLowerCase(target.model)

\* the test on the sold price alone
HasBothPrices_SoldOnly(r) ==
  /\ Has(r, "boughtPrice")
  /\ Has(r, "soldPrice") /\ TruthyNum(r.soldPrice)

\* txn.boughtPrice && txn.soldPrice
HasBothPrices(r) ==
  /\ Has(r, "boughtPrice") /\ TruthyNum(r.boughtPrice)
  /\ Has(r, "soldPrice") /\ TruthyNum(r.soldPrice)

\* the recentTxns.forEach callback: the line pushed for txn, if any
TransactionLine(txn) ==
  IF HasBothPrices(txn)
    THEN <<[kind |-> "transaction",
            date |-> IF Has(txn, "date") /\ TruthyStr(txn.date) THEN txn.date ELSE Lit_NA,
            modelStr |-> txn.brand \o <<" ">> \o txn.model,
            variantStr |-> IF Has(txn, "variant") /\ TruthyStr(txn.variant)
                             THEN <<" ">> \o txn.variant ELSE <<>>,
            yearStr |-> IF Has(txn, "year") /\ TruthyStr(txn.year)
                          THEN <<" ", "(">> \o txn.year \o <<")">> ELSE <<>>,
            buyLakhs |-> toFixed(Div(txn.boughtPrice, Whole(LakhUnit)), 2),
            sellLakhs |-> toFixed(Div(txn.soldPrice, Whole(LakhUnit)), 2),
            margin |-> toFixed(MarginOf(txn), 1)]>>
    ELSE <<>>

RECURSIVE TransactionLines(_)
TransactionLines(txns) ==
  IF Len(txns) = 0 THEN <<>>
  ELSE TransactionLine(Head(txns)) \o TransactionLines(Tail(txns))

RECURSIVE SumWeighted(_)
SumWeighted(groups) ==
  IF Len(groups) = 0 THEN Whole(0)
  ELSE Add(SumWeighted(SubSeq(groups, 1, Len(groups) - 1)),
           Mul(groups[Len(groups)].avgMargin, Whole(groups[Len(groups)].count)))

RECURSIVE SumCount(_)
SumCount(groups) ==
  IF Len(groups) = 0 THEN 0
  ELSE SumCount(SubSeq(groups, 1, Len(groups) - 1)) + groups[Len(groups)].count

\* the if (exactMatches.length > 0) branch
ExactBranch(matches, target) ==
  LET margins == MapMargin(SelectSeq(matches, HasBothPrices))
      header == [kind |-> "priority",
                 brand |-> toUpperCase(target.brand),
                 model |-> toUpperCase(target.model)]
      listed == TransactionLines(slice0(matches, MaxListed))
  IN  IF Len(margins) > 0
        THEN [insights |-> <<header>> \o listed \o
                           <<[kind |-> "average",
                              avgMargin |-> toFixed(Mean(margins), 1),
                              count |-> Len(margins)]>>,
              marginData |-> [percentage |-> Mean(margins),
                              description |-> IntToStr(Len(margins)) \o Lit_similar
                                              \o target.brand \o <<" ">> \o target.model
                                              \o Lit_transactions]]
        ELSE [insights |-> <<header>> \o listed, marginData |-> Null]

\* the else branch without the brandMatches.length > 0 guard
BrandBranch_NoGuard(groups, target) ==
  LET OfBrand(a) == includes(toLowerCase(a.brandModel), toLowerCase(target.brand))
      brandMatches == SelectSeq(groups, OfBrand)
      totalBrandTransactions == SumCount(brandMatches)
      line == [kind |-> "noExact", brand |-> target.brand, model |-> target.model]
  IN  [insights |-> <<line>>,
       marginData |-> [percentage |-> Div(SumWeighted(brandMatches),
                                          Whole(totalBrandTransactions)),
                       description |-> IntToStr(totalBrandTransactions) \o <<" ">>
                                       \o target.brand \o Lit_brandAverage]]

\* the else branch with a case-sensitive brand test
BrandBranch_CaseSensitive(groups, target) ==
  LET OfBrand(a) == includes(a.brandModel, target.brand)
      brandMatches == SelectSeq(groups, OfBrand)
      totalBrandTransactions == SumCount(brandMatches)
      line == [kind |-> "noExact", brand |-> target.brand, model |-> target.model]
  IN  IF Len(brandMatches) > 0
        THEN [insights |-> <<line>>,
              marginData |-> [percentage |-> Div(SumWeighted(brandMatches),
                                                 Whole(totalBrandTransactions)),
                              description |-> IntToStr(totalBrandTransactions) \o <<" ">>
                                              \o target.brand \o Lit_brandAverage]]
        ELSE [insights |-> <<line>>, marginData |-> Null]

\* the else branch: fallback to brand level
BrandBranch(groups, target) ==
  LET OfBrand(a) == includes(toLowerCase(a.brandModel), toLowerCase(target.brand))
      brandMatches == SelectSeq(groups, OfBrand)
      totalBrandTransactions == SumCount(brandMatches)
      line == [kind |-> "noExact", brand |-> target.brand, model |-> target.model]
  IN  IF Len(brandMatches) > 0
        THEN [insights |-> <<line>>,
              marginData |-> [percentage |-> Div(SumWeighted(brandMatches),
                                                 Whole(totalBrandTransactions)),
                              description |-> IntToStr(totalBrandTransactions) \o <<" ">>
                                              \o target.brand \o Lit_brandAverage]]
        ELSE [insights |-> <<line>>, marginData |-> Null]

\* the blank test without the trim
IsBlankInput_NoTrim(text) == ~TruthyStr(text)

\* !csvData || !csvData.trim()
IsBlankInput(text) == ~TruthyStr(text) \/ ~TruthyStr(trim(text))

\* lines 184-187: the exact matches among the relevant records
SelectExactMatches(relevant, target) ==
  LET IsExact(r) == IsExactMatch(r, target)
  IN  SelectSeq(relevant, IsExact)

\* the composer with the context line counting the selected records
ComposeInsights_SelectedTotal(records, relevant, groups, matches, target) ==
  LET branch == IF Len(matches) > 0 THEN ExactBranch(matches, target)
                ELSE BrandBranch(groups, target)
  IN  [allRecords |-> records, relevantRecords |-> relevant,
       aggregated |-> groups, exactMatches |-> matches,
       insights |-> branch.insights \o
                    <<[kind |-> "context", total |-> Len(relevant)]>>,
       marginData |-> branch.marginData]

\* lines 178-248: the insights and marginData built from the locals.
\* insights is the sequence of pushed lines, which the function returns
\* joined by newlines.
ComposeInsights(records, relevant, groups, matches, target) ==
  LET branch == IF Len(matches) > 0 THEN ExactBranch(matches, target)
                ELSE BrandBranch(groups, target)
  IN  [allRecords |-> records, relevantRecords |-> relevant,
       aggregated |-> groups, exactMatches |-> matches,
       insights |-> branch.insights \o
                    <<[kind |-> "context", total |-> Len(records)]>>,
       marginData |-> branch.marginData]

\* lines 176-248, given relevantRecords
SanitizeRelevant(records, relevant, target) ==
  ComposeInsights(records, relevant, aggregateData(relevant),
                  SelectExactMatches(relevant, target), target)

\* lines 165-248, given allRecords
SanitizeRecords(records, target) ==
  IF Len(records) = 0
    THEN [allRecords |-> records, relevantRecords |-> <<>>, aggregated |-> <<>>,
          exactMatches |-> <<>>,
          insights |-> <<[kind |-> "fixed", text |-> "No valid historical data found."]>>,
          marginData |-> Null]
  ELSE SanitizeRelevant(records, smartFilter(records, target, DefaultMaxRecords), target)

\* The whole function, with its locals.
SanitizeRun(text, target) ==
  IF IsBlankInput(text)
    THEN [allRecords |-> <<>>, relevantRecords |-> <<>>, aggregated |-> <<>>,
          exactMatches |-> <<>>,
          insights |-> <<[kind |-> "fixed", text |-> "No historical data available."]>>,
          marginData |-> Null]
  ELSE SanitizeRecords(parseCSV(text), target)

\* the call raises instead of returning: only smartFilter's scoring can
SanitizeRaises(text, target) ==
  ~IsBlankInput(text) /\ smartFilterRaises(parseCSV(text), target)

\* the return value with the lines appended to those returned before
ReturnValue_Accumulated(run) ==
  [insights |-> result.insights \o run.insights, marginData |-> run.marginData]

\* what the caller receives
ReturnValue(run) == [insights |-> run.insights, marginData |-> run.marginData]

sanitizeHistoricalData(text, target) == ReturnValue(SanitizeRun(text, target))

(***************************************************************************)
(* containsSensitiveData                                                   *)
(***************************************************************************)
MinDigitRun == 5

Lit_price == <<"p","r","i","c","e">>
Lit_margin == <<"m","a","r","g","i","n">>

\* the words of the four case-insensitive patterns
SensitiveWords == {Lit_bought, Lit_sold, Lit_price, Lit_margin}

\* the characters the regular expression dot does not match
IsLineTerminator(c) == c \in {"\n", "\r"}

\* /\d{5,}/.test(s)
HasDigitRun(s, n) ==
  \E i \in 1..(Len(s) - n + 1) : \A j \in i..(i + n - 1) : IsDigit(s[j])

\* /word.*\d+/i.test(s): the word in any case, then any characters other
\* than line terminators, then a digit
MatchesWordThenDigit(s, word) ==
  \E i \in 1..(Len(s) - Len(word) + 1) :
    /\ toLowerCase(SubSeq(s, i, i + Len(word) - 1)) = word
    /\ \E j \in (i + Len(word))..Len(s) :
         /\ IsDigit(s[j])
         /\ \A m \in (i + Len(word))..(j - 1) : ~IsLineTerminator(s[m])

containsSensitiveData(s) ==
  \/ HasDigitRun(s, MinDigitRun)
  \/ \E word \in SensitiveWords : MatchesWordThenDigit(s, word)

(***************************************************************************)
(* Inputs.  A ledger text is a header line followed by up to MaxRows rows  *)
(* of RowPool, joined by newlines; SmallTexts are all texts of at most     *)
(* MaxTextLen characters over a four-character alphabet.                   *)
(***************************************************************************)
Str_Maruti == <<"M","a","r","u","t","i">>
Str_Swift == <<"S","w","i","f","t">>
Str_Honda == <<"H","o","n","d","a">>
Str_City == <<"C","i","t","y">>
Str_SwiftDzire == <<"S","w","i","f","t"," ","D","z","i","r","e">>

HeaderYear == <<"B","r","a","n","d",",","M","o","d","e","l",",","Y","e","a","r",",","B","o","u","g","h","t","P","r","i","c","e",",","S","o","l","d","P","r","i","c","e">>
HeaderDate == <<"B","R","A","N","D",","," ","M","o","d","e","l"," ",",","D","a","t","e",",","P","u","r","c","h","a","s","e",",","S","a","l","e">>
HeaderVariant == <<"B","r","a","n","d",",","M","o","d","e","l",",","V","a","r","i","a","n","t">>

Headers == {HeaderYear, HeaderDate, HeaderVariant}

Row1 == <<"M","a","r","u","t","i",",","S","w","i","f","t",",","2","0","1","8",",","4","5","0","0","0","0",",","5","2","0","0","0","0">>
Row2 == <<"M","a","r","u","t","i",",","S","w","i","f","t",",","2","0","1","9",",","4","0","0","0","0","0",",","4","6","0","0","0","0">>
Row3 == <<"m","a","r","u","t","i",",","S","w","i","f","t"," ","D","z","i","r","e",",",",","4","0","0","0","0","0",",","5","2","0","0","0","0">>
Row4 == <<"M","a","r","u","t","i",",","S","w","i","f","t",",","2","0","1","8",",","4","0","0","0","0","0",",","0">>
Row5 == <<"H","o","n","d","a",",","C","i","t","y",",","2","0","2","0",",","a","b","c",",","5","0","0","0","0","0">>
Row6 == <<",","S","w","i","f","t",",",",","0",",","5","2","0","0","0","0">>
Row7 == <<>>
Row8 == <<"M","a","r","u","t","i",",","S","w","i","f","t",",","2","0","1","9",",","n","/","a",",","4","6","0","0","0","0">>
Row9 == <<"M","a","r","u","t","i",",",",","2","0","1","7",",","3","0","0","0","0","0",",","3","3","0","0","0","0">>

RowPool == {Row1, Row2, Row3, Row4, Row5, Row6, Row7, Row8, Row9}

SeqsUpTo(S, n) == UNION {[1..k -> S] : k \in 0..n}

LedgerTexts ==
  {join(<<h>> \o rows, <<"\n">>) : h \in Headers, rows \in SeqsUpTo(RowPool, MaxRows)}

\* longer ledgers: the first k rows of LongRows under each header
LongRows == <<Row3, Row6, Row1, Row5, Row4, Row2, Row9, Row8>>

LongLedgers ==
  {join(<<h>> \o SubSeq(LongRows, 1, k), <<"\n">>) :
     h \in Headers, k \in (MaxRows + 1)..Len(LongRows)}

SmallTexts == SeqsUpTo({"\n", " ", ",", "a"}, MaxTextLen)

\* a car entered with a bought price of 0
Row10 == <<"M","a","r","u","t","i",",","S","w","i","f","t",",","2","0","2","0",",",
           "0",",","3","0","0","0","0","0">>

\* three more ledgers under each header: seven rows of one brand and model,
\* three rows in two groups of that brand, and a bought price of 0
ExtraRows ==
  {<<Row1, Row2, Row8, Row1, Row2, Row2, Row1>>, <<Row1, Row4, Row9>>, <<Row10, Row1>>}

ExtraLedgers ==
  {join(<<h>> \o rows, <<"\n">>) : h \in Headers, rows \in ExtraRows}

CsvInputs == LedgerTexts \cup LongLedgers \cup SmallTexts \cup ExtraLedgers

Targets ==
  {[brand |-> Str_Maruti, model |-> Str_Swift],
   [brand |-> Str_Honda, model |-> Str_City],
   [brand |-> toUpperCase(Str_Maruti), model |-> Str_SwiftDzire],
   [brand |-> Str_Maruti, model |-> <<>>],
   [brand |-> <<>>, model |-> Str_Swift]}

NoResult == [insights |-> <<>>, marginData |-> Null]

(***************************************************************************)
(* Texts given to containsSensitiveData: up to MaxTokens tokens in a row.  *)
(***************************************************************************)
Tokens ==
  {<<"b","o","u","g","h","t">>,
   <<"S","o","l","d">>,
   <<"P","R","I","C","E">>,
   <<"M","a","r","g","i","n",":"," ">>,
   <<" ","f","o","r"," ">>,
   <<"\n">>,
   <<"4">>,
   <<"1","2","3","4">>,
   <<"4","5","0","0","0","0">>,
   <<"T","h","i","s"," ","c","a","r"," ","h","a","s"," ","g","o","o","d"," ","m","i","l","e","a","g","e">>,
   <<"%">>}

RECURSIVE Concat(_)
Concat(parts) == IF Len(parts) = 0 THEN <<>> ELSE Head(parts) \o Concat(Tail(parts))

SensitiveTexts == {Concat(parts) : parts \in SeqsUpTo(Tokens, MaxTokens)}


(***************************************************************************)
(* The state machine: the arguments are chosen initially; each action is   *)
(* one call.  ParseCSV, CalculateRelevance, SmartFilter and AggregateData  *)
(* call the module's functions one after the other on the arguments, with  *)
(* any maxRecords up to MaxK; Sanitize is one call of                      *)
(* sanitizeHistoricalData, which passes maxRecords = 50.                   *)
(***************************************************************************)
\* no sanitizer call is under way
SanitizerIdle ==
  /\ csvData = <<>>
  /\ targetCar = [brand |-> <<>>, model |-> <<>>]
  /\ maxRecords = DefaultMaxRecords
  /\ pc = "ready"
  /\ allRecords = <<>>
  /\ scored = <<>>
  /\ relevantRecords = <<>>
  /\ aggregated = <<>>
  /\ exactMatches = <<>>
  /\ result = NoResult
  /\ sensitiveText = <<>>
  /\ flagged = FALSE
  /\ returned = <<>>

\* no browser session: the sanitizer is called on its own
SessionIdle ==
  /\ now = 0
  /\ ticks = 0
  /\ sessionStorage = EmptyRecord
  /\ written = EmptyRecord
  /\ lastRead = Null
  /\ call = Null
  /\ isAuthenticated = FALSE
  /\ password = ""
  /\ historyData = <<>>
  /\ valuationResult = Null
  /\ error = Null
  /\ isLoading = FALSE
  /\ showTimeoutWarning = FALSE
  /\ mounted = FALSE
  /\ renderPending = FALSE
  /\ timers = {}
  /\ timeoutRef = 0
  /\ warningRef = 0
  /\ lastActivityRef = 0
  /\ lastEventAt = -1
  /\ fired = <<>>

Init ==
  /\ csvData \in CsvInputs
  /\ targetCar \in Targets
  /\ maxRecords = DefaultMaxRecords
  /\ pc = "ready"
  /\ allRecords = <<>>
  /\ scored = <<>>
  /\ relevantRecords = <<>>
  /\ aggregated = <<>>
  /\ exactMatches = <<>>
  /\ result = NoResult
  /\ sensitiveText = <<>>
  /\ flagged = FALSE
  /\ returned = <<>>
  /\ SessionIdle

ParseCSV ==
  /\ pc = "ready"
  /\ allRecords' = parseCSV(csvData)
  /\ pc' = "parsed"
  /\ UNCHANGED <<sessionVars, sensitiveText, flagged, returned, csvData, targetCar, maxRecords, scored, relevantRecords,
                 aggregated, exactMatches, result>>

CalculateRelevance ==
  /\ pc = "parsed"
  /\ \E i \in 1..Len(allRecords) :
       IF calculateRelevanceRaises(allRecords[i], targetCar)
         THEN pc' = "raised" /\ UNCHANGED scored
         ELSE /\ scored' = <<[record |-> allRecords[i],
                              score |-> calculateRelevance(allRecords[i], targetCar)]>>
              /\ pc' = "scored"
  /\ UNCHANGED <<sessionVars, sensitiveText, flagged, returned, csvData, targetCar, maxRecords, allRecords, relevantRecords,
                 aggregated, exactMatches, result>>

SmartFilter ==
  /\ pc = "parsed"
  /\ \E k \in 0..MaxK :
       /\ maxRecords' = k
       /\ IF smartFilterRaises(allRecords, targetCar)
            THEN pc' = "raised" /\ UNCHANGED relevantRecords
            ELSE /\ relevantRecords' = smartFilter(allRecords, targetCar, k)
                 /\ pc' = "filtered"
  /\ UNCHANGED <<sessionVars, sensitiveText, flagged, returned, csvData, targetCar, allRecords, scored,
                 aggregated, exactMatches, result>>

AggregateData ==
  /\ pc = "filtered"
  /\ aggregated' = aggregateData(relevantRecords)
  /\ pc' = "aggregated"
  /\ UNCHANGED <<sessionVars, sensitiveText, flagged, returned, csvData, targetCar, maxRecords, allRecords, scored,
                 relevantRecords, exactMatches, result>>

\* one call sanitizeHistoricalData(text, target): it raises, or it returns
\* and its locals and return value are recorded
SanitizeCall(text, target) ==
  /\ maxRecords' = DefaultMaxRecords
  /\ IF SanitizeRaises(text, target)
       THEN /\ pc' = "raised"
            /\ UNCHANGED <<allRecords, relevantRecords, aggregated,
                           exactMatches, result, returned>>
       ELSE \E run \in {SanitizeRun(text, target)} :
              /\ allRecords' = run.allRecords
              /\ relevantRecords' = run.relevantRecords
              /\ aggregated' = run.aggregated
              /\ exactMatches' = run.exactMatches
              /\ result' = ReturnValue(run)
              /\ returned' = Append(returned,
                                    [csvData |-> text, targetCar |-> target,
                                     result |-> result'])
              /\ pc' = "done"

Sanitize ==
  /\ pc = "ready"
  /\ SanitizeCall(csvData, targetCar)
  /\ UNCHANGED <<sessionVars, sensitiveText, flagged, csvData, targetCar, scored>>

Next ==
  \/ ParseCSV
  \/ CalculateRelevance
  \/ SmartFilter
  \/ AggregateData
  \/ Sanitize

Spec == Init /\ [][Next]_vars

(***************************************************************************)
(* Repeated calls: after a call has returned, the caller calls again with  *)
(* any arguments of RepeatTexts and RepeatTargets, up to MaxCalls calls.   *)
(***************************************************************************)
RepeatTexts ==
  {join(<<HeaderYear, Row1, Row2>>, <<"\n">>),
   join(<<HeaderDate, Row5, Row4, Row8>>, <<"\n">>),
   <<" ">>}

RepeatTargets ==
  {[brand |-> Str_Maruti, model |-> Str_Swift],
   [brand |-> Str_Honda, model |-> Str_City]}

RepeatInit ==
  /\ csvData \in RepeatTexts
  /\ targetCar \in RepeatTargets
  /\ maxRecords = DefaultMaxRecords
  /\ pc = "ready"
  /\ allRecords = <<>>
  /\ scored = <<>>
  /\ relevantRecords = <<>>
  /\ aggregated = <<>>
  /\ exactMatches = <<>>
  /\ result = NoResult
  /\ sensitiveText = <<>>
  /\ flagged = FALSE
  /\ returned = <<>>
  /\ SessionIdle

Reinvoke ==
  /\ pc = "done"
  /\ Len(returned) < MaxCalls
  /\ \E t \in RepeatTexts, c \in RepeatTargets :
       /\ csvData' = t
       /\ targetCar' = c
       /\ SanitizeCall(t, c)
  /\ UNCHANGED <<sessionVars, sensitiveText, flagged, scored>>

RepeatNext ==
  \/ Sanitize
  \/ Reinvoke

RepeatSpec == RepeatInit /\ [][RepeatNext]_vars

(***************************************************************************)
(* The sensitivity check on its own: one call of containsSensitiveData on  *)
(* a text chosen initially.                                                *)
(***************************************************************************)
SensitiveInit ==
  /\ sensitiveText \in SensitiveTexts
  /\ flagged = FALSE
  /\ pc = "ready"
  /\ csvData = <<>>
  /\ targetCar = [brand |-> <<>>, model |-> <<>>]
  /\ maxRecords = DefaultMaxRecords
  /\ allRecords = <<>>
  /\ scored = <<>>
  /\ relevantRecords = <<>>
  /\ aggregated = <<>>
  /\ exactMatches = <<>>
  /\ result = NoResult
  /\ returned = <<>>
  /\ SessionIdle

ContainsSensitiveData ==
  /\ pc = "ready"
  /\ flagged' = containsSensitiveData(sensitiveText)
  /\ pc' = "checked"
  /\ UNCHANGED <<sessionVars, sensitiveText, csvData, targetCar, maxRecords, allRecords, scored,
                 relevantRecords, aggregated, exactMatches, result, returned>>

SensitiveNext == ContainsSensitiveData

SensitiveSpec == SensitiveInit /\ [][SensitiveNext]_vars

(***************************************************************************)
(* utils/cacheManager: valuation results kept in sessionStorage for 24     *)
(* hours.  A stored string is modelled by the value JSON.parse gives back  *)
(* for it.                                                                 *)
(***************************************************************************)
CACHE_DURATION == 24 * 60 * 60 * 1000

CACHE_PREFIX == <<"v","a","l","u","a","t","i","o","n","_","c","a","c","h","e","_">>

\* parseInt of a string: leading white space is skipped, then an optional
\* sign and the longest run of decimal digits is converted; no digit gives
\* NaN.  The prefix 0x is not modelled.
parseInt(value) ==
  LET lead == {i \in 1..Len(value) : ~IsWhitespace(value[i])}
      s0   == IF lead = {} THEN <<>> ELSE SubSeq(value, Min(lead), Len(value))
      neg  == Len(s0) > 0 /\ s0[1] = "-"
      s1   == IF Len(s0) > 0 /\ s0[1] \in {"-", "+"} THEN Tail(s0) ELSE s0
      ip   == DigitPrefix(s1)
  IN  IF Len(ip) = 0 THEN NaN
      ELSE IF neg THEN Whole(-DigitsValue(ip)) ELSE Whole(DigitsValue(ip))

\* String.prototype.replace(/\s+/g, '_')
RECURSIVE replaceWhitespace(_)
replaceWhitespace(s) ==
  IF Len(s) = 0 THEN <<>>
  ELSE IF ~IsWhitespace(s[1]) THEN <<s[1]>> \o replaceWhitespace(Tail(s))
  ELSE IF Len(s) > 1 /\ IsWhitespace(s[2]) THEN replaceWhitespace(Tail(s))
  ELSE <<"_">> \o replaceWhitespace(Tail(s))

generateCacheKey(carDetails) ==
  LET km == parseInt(carDetails.kmDriven)
      \* km < limit, false for NaN
      LessThan(limit) == IsFinite(km) /\ km[1] < limit * km[2]
      kmRange == IF LessThan(20000) THEN <<"0","-","2","0","k">>
                 ELSE IF LessThan(40000) THEN <<"2","0","-","4","0","k">>
                 ELSE IF LessThan(60000) THEN <<"4","0","-","6","0","k">>
                 ELSE IF LessThan(80000) THEN <<"6","0","-","8","0","k">>
                 ELSE IF LessThan(100000) THEN <<"8","0","-","1","0","0","k">>
                 ELSE <<"1","0","0","k","+">>
      key == carDetails.brand \o <<"_">> \o carDetails.model \o <<"_">>
             \o carDetails.year \o <<"_">> \o kmRange \o <<"_">> \o carDetails.fuel
  IN  CACHE_PREFIX \o replaceWhitespace(toLowerCase(key))

\* JSON.parse(JSON.stringify(value)) of a ValuationResult: NaN and the
\* infinities are written as null, all else comes back equal
JSONResult(value) ==
  LET JSONNumber(x) == IF IsFinite(x) THEN x ELSE Null
  IN  [value EXCEPT !.priceBand.min = JSONNumber(@), !.priceBand.max = JSONNumber(@)]

\* sessionStorage after cacheResult(carDetails, value) at time t
cacheResult(storage, carDetails, value, t) ==
  LET cacheKey == generateCacheKey(carDetails)
      cached == [data |-> JSONResult(value), timestamp |-> t,
                 expiresAt |-> t + CACHE_DURATION]
  IN  (cacheKey :> cached) @@ storage

\* getCachedResult that expires an entry one millisecond early
getCachedResult_ExpiresEarly(storage, carDetails, t) ==
  LET cacheKey == generateCacheKey(carDetails)
  IN  IF cacheKey \notin DOMAIN storage
        THEN [value |-> Null, storage |-> storage]
      ELSE IF t >= storage[cacheKey].expiresAt
        THEN [value |-> Null,
              storage |-> [k \in DOMAIN storage \ {cacheKey} |-> storage[k]]]
      ELSE [value |-> storage[cacheKey].data, storage |-> storage]

\* getCachedResult(carDetails) at time t: the returned value and the
\* sessionStorage left behind, the expired entry removed
getCachedResult(storage, carDetails, t) ==
  LET cacheKey == generateCacheKey(carDetails)
  IN  IF cacheKey \notin DOMAIN storage
        THEN [value |-> Null, storage |-> storage]
      ELSE IF t > storage[cacheKey].expiresAt
        THEN [value |-> Null,
              storage |-> [k \in DOMAIN storage \ {cacheKey} |-> storage[k]]]
      ELSE [value |-> storage[cacheKey].data, storage |-> storage]

\* car details as the form submits them; the first two have the same
\* fingerprint
Cars ==
  {[brand |-> Str_Maruti, model |-> Str_Swift, year |-> <<"2","0","1","8">>,
    kmDriven |-> <<"1","5","0","0","0">>, fuel |-> <<"P","e","t","r","o","l">>],
   [brand |-> toLowerCase(Str_Maruti), model |-> toUpperCase(Str_Swift),
    year |-> <<"2","0","1","8">>,
    kmDriven |-> <<"1","9","9","9","9"," ","k","m">>,
    fuel |-> <<"p","e","t","r","o","l">>],
   [brand |-> Str_Maruti, model |-> <<"S","w","i","f","t"," "," ","D","z","i","r","e">>,
    year |-> <<"2","0","1","8">>,
    kmDriven |-> <<>>, fuel |-> <<"P","e","t","r","o","l">>]}

(***************************************************************************)
(* hooks/useSessionTimeout, as App uses it.                                *)
(***************************************************************************)
timeoutMinutes == 15
warningMinutes == 2

\* resetTimer() that sets the two timers and clears none
resetTimer_NoClear(pending, tRef, wRef, t) ==
  LET used == {x.id : x \in pending}
      wId == Min({i \in 1..(Cardinality(used) + 1) : i \notin used})
      tId == Min({i \in 1..(Cardinality(used) + 2) : i \notin used \cup {wId}})
  IN  [timers |-> pending \cup
                  {[id |-> wId, kind |-> "warning",
                    due |-> t + (timeoutMinutes - warningMinutes) * 60 * 1000],
                   [id |-> tId, kind |-> "timeout",
                    due |-> t + timeoutMinutes * 60 * 1000]},
       warningRef |-> wId, timeoutRef |-> tId]

\* resetTimer() at time t: both timers the refs name are cleared, and a
\* warning timer and a timeout timer are set.  A timer id only tells
\* pending timers apart: a new timer takes the least number no timer still
\* pending holds, the refs being overwritten by this very call.
resetTimer(pending, tRef, wRef, t) ==
  LET cleared == {x \in pending : x.id \notin {tRef, wRef}}
      used == {x.id : x \in cleared}
      wId == Min({i \in 1..(Cardinality(used) + 1) : i \notin used})
      tId == Min({i \in 1..(Cardinality(used) + 2) : i \notin used \cup {wId}})
  IN  [timers |-> cleared \cup
                  {[id |-> wId, kind |-> "warning",
                    due |-> t + (timeoutMinutes - warningMinutes) * 60 * 1000],
                   [id |-> tId, kind |-> "timeout",
                    due |-> t + timeoutMinutes * 60 * 1000]},
       warningRef |-> wId, timeoutRef |-> tId]

(***************************************************************************)
(* services/geminiService analyzeCarValue under App's handleAnalyze.       *)
(***************************************************************************)
\* the form is submitted: the part of handleAnalyze and analyzeCarValue
\* that runs before the external call, the whole of them on a cache hit
HandleAnalyze ==
  /\ mounted /\ isAuthenticated /\ ~isLoading
  /\ Len(returned) < MaxAnalyses
  /\ \E car \in Cars :
       \E read \in {getCachedResult(sessionStorage, car, now)} :
         /\ sessionStorage' = read.storage
         /\ lastRead' = [car |-> car, at |-> now, value |-> read.value]
         /\ IF read.value # Null
              THEN /\ call' = [pc |-> "returned", car |-> car, hit |-> TRUE,
                               before |-> sessionStorage, value |-> read.value]
                   /\ valuationResult' = read.value
                   /\ isLoading' = FALSE
                   /\ UNCHANGED sanitizerVars
              ELSE /\ SanitizeCall(historyData,
                                   [brand |-> car.brand, model |-> car.model])
                   /\ call' = [pc |-> IF pc' = "raised" THEN "raised" ELSE "awaiting",
                               car |-> car, hit |-> FALSE,
                               before |-> sessionStorage, value |-> Null]
                   /\ valuationResult' = Null
                   /\ isLoading' = (pc' # "raised")
                   /\ UNCHANGED <<csvData, targetCar, scored, sensitiveText, flagged>>
  /\ error' = Null
  /\ renderPending' = TRUE
  /\ UNCHANGED <<now, ticks, written, isAuthenticated, password, historyData,
                 showTimeoutWarning, mounted, timers, timeoutRef, warningRef,
                 lastActivityRef, lastEventAt, fired>>

\* the external call returns a response: the result is built, cached and
\* returned, and handleAnalyze shows it
AnalyzeSucceed ==
  /\ call # Null /\ call.pc = "awaiting"
  /\ \E priceData \in {[min |-> Whole(400000), max |-> Whole(425000),
                        currency |-> "INR", originalMsrp |-> "9.5L"],
                       [min |-> Whole(0), max |-> Whole(0),
                        currency |-> "INR", originalMsrp |-> "Unknown"]} :
       \E built \in {[priceBand |-> [min |-> priceData.min, max |-> priceData.max,
                                     currency |-> priceData.currency],
                      originalMsrp |-> priceData.originalMsrp,
                      reasoning |-> "reasoning"]} :
         /\ sessionStorage' = cacheResult(sessionStorage, call.car, built, now)
         /\ written' = (generateCacheKey(call.car) :> [data |-> built, at |-> now])
                       @@ written
         /\ call' = [call EXCEPT !.pc = "returned", !.value = built]
         /\ valuationResult' = built
  /\ isLoading' = FALSE
  /\ renderPending' = mounted
  /\ UNCHANGED <<sanitizerVars, now, ticks, lastRead, isAuthenticated, password,
                 historyData, error, showTimeoutWarning, mounted, timers,
                 timeoutRef, warningRef, lastActivityRef, lastEventAt, fired>>

\* a failed external call that caches the default price band
AnalyzeFail_CachesDefault ==
  /\ call # Null /\ call.pc = "awaiting"
  /\ call' = [call EXCEPT !.pc = "raised"]
  /\ sessionStorage' =
       cacheResult(sessionStorage, call.car,
                   [priceBand |-> [min |-> Whole(0), max |-> Whole(0),
                                   currency |-> "INR"],
                    originalMsrp |-> "Unknown", reasoning |-> ""], now)
  /\ error' = [message |-> "Failed to analyze car value. Please try again."]
  /\ isLoading' = FALSE
  /\ renderPending' = mounted
  /\ UNCHANGED <<sanitizerVars, now, ticks, written, lastRead,
                 isAuthenticated, password, historyData, valuationResult,
                 showTimeoutWarning, mounted, timers, timeoutRef, warningRef,
                 lastActivityRef, lastEventAt, fired>>

\* the external call fails: analyzeCarValue throws and handleAnalyze shows
\* the message
AnalyzeFail ==
  /\ call # Null /\ call.pc = "awaiting"
  /\ call' = [call EXCEPT !.pc = "raised"]
  /\ error' = [message |-> "Failed to analyze car value. Please try again."]
  /\ isLoading' = FALSE
  /\ renderPending' = mounted
  /\ UNCHANGED <<sanitizerVars, now, ticks, sessionStorage, written, lastRead,
                 isAuthenticated, password, historyData, valuationResult,
                 showTimeoutWarning, mounted, timers, timeoutRef, warningRef,
                 lastActivityRef, lastEventAt, fired>>

\* time passes: a millisecond, or a millisecond less than the cache duration
AdvanceClock ==
  /\ ticks < MaxTicks
  /\ \E d \in {1, CACHE_DURATION - 1} : now' = now + d
  /\ ticks' = ticks + 1
  /\ UNCHANGED <<sanitizerVars, sessionStorage, written, lastRead, call,
                 isAuthenticated, password, historyData, valuationResult, error,
                 isLoading, showTimeoutWarning, mounted, renderPending, timers,
                 timeoutRef, warningRef, lastActivityRef, lastEventAt, fired>>

\* App is mounted and the user has logged in, with no ledger entered; the
\* user stays active, so that the session timer is left out
CacheInit ==
  /\ SanitizerIdle
  /\ now = 0
  /\ ticks = 0
  /\ sessionStorage =
       (<<"a","u","t","h","_","s","t","a","t","u","s">> :> "authenticated")
       @@ (<<"l","o","g","i","n","_","t","i","m","e">> :> IntToStr(0))
  /\ written = EmptyRecord
  /\ lastRead = Null
  /\ call = Null
  /\ isAuthenticated = TRUE
  /\ password = "autovaluate2024"
  /\ historyData = <<>>
  /\ valuationResult = Null
  /\ error = Null
  /\ isLoading = FALSE
  /\ showTimeoutWarning = FALSE
  /\ mounted = TRUE
  /\ renderPending = FALSE
  /\ \E r \in {resetTimer({}, 0, 0, 0)} :
       timers = r.timers /\ timeoutRef = r.timeoutRef /\ warningRef = r.warningRef
  /\ lastActivityRef = 0
  /\ lastEventAt = -1
  /\ fired = <<>>

CacheNext == HandleAnalyze \/ AnalyzeSucceed \/ AnalyzeFail \/ AdvanceClock

CacheSpec == CacheInit /\ [][CacheNext]_vars

\* a clearSecureData that removes the cached valuations only
clearSecureData_CacheOnly(storage) ==
  [k \in {x \in DOMAIN storage :
            \/ Len(x) < Len(CACHE_PREFIX)
            \/ SubSeq(x, 1, Len(CACHE_PREFIX)) # CACHE_PREFIX} |-> storage[k]]

(***************************************************************************)
(* The session: components/AuthGate, App's handlers and the timers of      *)
(* useSessionTimeout.  App renders after each change of its state; the     *)
(* hook's effect, whose dependency resetTimer is a new function on every   *)
(* render, then re-runs at some later point (RunEffect).                   *)
(***************************************************************************)
\* clearSecureData(): sessionStorage.clear()
clearSecureData(storage) == EmptyRecord

\* AuthGate handleLogin on the typed password
HandleLogin ==
  /\ mounted /\ ~isAuthenticated
  /\ \E typed \in {"autovaluate2024", "letmein"} :
       IF typed = "autovaluate2024"
         THEN /\ isAuthenticated' = TRUE
              /\ password' = typed
              /\ sessionStorage' =
                   (<<"a","u","t","h","_","s","t","a","t","u","s">> :> "authenticated")
                   @@ (<<"l","o","g","i","n","_","t","i","m","e">> :> IntToStr(now))
                   @@ sessionStorage
         ELSE /\ password' = ""
              /\ UNCHANGED <<isAuthenticated, sessionStorage>>
  /\ UNCHANGED <<sanitizerVars, now, ticks, written, lastRead, call, historyData,
                 valuationResult, error, isLoading, showTimeoutWarning, mounted,
                 renderPending, timers, timeoutRef, warningRef, lastActivityRef,
                 lastEventAt, fired>>

\* AuthGate handleLogout, which calls App handleLogout
HandleLogout ==
  /\ mounted /\ isAuthenticated
  /\ isAuthenticated' = FALSE
  /\ password' = ""
  /\ historyData' = <<>>
  /\ valuationResult' = Null
  /\ error' = Null
  /\ sessionStorage' = clearSecureData(EmptyRecord)
  /\ written' = EmptyRecord
  /\ renderPending' =
       (renderPending \/ historyData # <<>> \/ valuationResult # Null \/ error # Null)
  /\ UNCHANGED <<sanitizerVars, now, ticks, lastRead, call, isLoading,
                 showTimeoutWarning, mounted, timers, timeoutRef, warningRef,
                 lastActivityRef, lastEventAt, fired>>

\* HistoryUpload onDataChange: App setHistoryData
HandleDataChange ==
  /\ mounted /\ isAuthenticated
  /\ \E ledger \in {<<>>, join(<<HeaderYear, Row1>>, <<"\n">>)} :
       /\ historyData' = ledger
       /\ renderPending' = (renderPending \/ ledger # historyData)
  /\ UNCHANGED <<sanitizerVars, now, ticks, sessionStorage, written, lastRead, call,
                 isAuthenticated, password, valuationResult, error, isLoading,
                 showTimeoutWarning, mounted, timers, timeoutRef, warningRef,
                 lastActivityRef, lastEventAt, fired>>

\* one of the five activity events reaches handleActivity
HandleActivity ==
  /\ mounted
  /\ \E event \in {"mousedown", "keydown", "scroll", "touchstart", "click"} :
       \E r \in {resetTimer(timers, timeoutRef, warningRef, now)} :
         /\ timers' = r.timers
         /\ timeoutRef' = r.timeoutRef
         /\ warningRef' = r.warningRef
  /\ lastActivityRef' = now
  /\ lastEventAt' = now
  /\ UNCHANGED <<sanitizerVars, now, ticks, sessionStorage, written, lastRead, call,
                 isAuthenticated, password, historyData, valuationResult, error,
                 isLoading, showTimeoutWarning, mounted, renderPending, fired>>

\* the effect of useSessionTimeout re-runs after a render: its cleanup
\* clears both timers, then the listeners are added again and resetTimer
\* is called
RunEffect ==
  /\ mounted /\ renderPending
  /\ renderPending' = FALSE
  /\ \E r \in {resetTimer(timers, timeoutRef, warningRef, now)} :
       /\ timers' = r.timers
       /\ timeoutRef' = r.timeoutRef
       /\ warningRef' = r.warningRef
  /\ lastActivityRef' = now
  /\ UNCHANGED <<sanitizerVars, now, ticks, sessionStorage, written, lastRead, call,
                 isAuthenticated, password, historyData, valuationResult, error,
                 isLoading, showTimeoutWarning, mounted, lastEventAt, fired>>

\* the warning timer fires: onWarning is App handleTimeoutWarning
FireWarning ==
  /\ \E x \in timers :
       /\ x.kind = "warning" /\ x.due <= now
       /\ LET used == {y.id : y \in timers} \cup {timeoutRef, warningRef}
              hideId == Min({i \in 1..(Cardinality(used) + 1) : i \notin used})
          IN  timers' = (timers \ {x}) \cup
                        {[id |-> hideId, kind |-> "hide", due |-> now + 10000]}
  /\ showTimeoutWarning' = TRUE
  /\ renderPending' = (renderPending \/ ~showTimeoutWarning)
  /\ fired' = Append(fired, [kind |-> "warning", at |-> now])
  /\ UNCHANGED <<sanitizerVars, now, ticks, sessionStorage, written, lastRead, call,
                 isAuthenticated, password, historyData, valuationResult, error,
                 isLoading, mounted, timeoutRef, warningRef, lastActivityRef,
                 lastEventAt>>

\* the timer set by handleTimeoutWarning fires: the warning is hidden
FireHide ==
  /\ \E x \in timers :
       /\ x.kind = "hide" /\ x.due <= now
       /\ timers' = timers \ {x}
  /\ showTimeoutWarning' = FALSE
  /\ renderPending' = (renderPending \/ (mounted /\ showTimeoutWarning))
  /\ UNCHANGED <<sanitizerVars, now, ticks, sessionStorage, written, lastRead, call,
                 isAuthenticated, password, historyData, valuationResult, error,
                 isLoading, mounted, timeoutRef, warningRef, lastActivityRef,
                 lastEventAt, fired>>

\* the timeout timer fires: onTimeout is App handleTimeout, which calls
\* handleLogout and reloads the page; the new page starts with the initial
\* state, AuthGate reads auth_status, and the hook's effect sets new timers
HandleTimeout ==
  /\ \E x \in timers : x.kind = "timeout" /\ x.due <= now
  /\ fired' = Append(fired, [kind |-> "timeout", at |-> now])
  /\ sessionStorage' = clearSecureData(sessionStorage)
  /\ isAuthenticated' =
       (/\ <<"a","u","t","h","_","s","t","a","t","u","s">> \in DOMAIN sessionStorage'
        /\ sessionStorage'[<<"a","u","t","h","_","s","t","a","t","u","s">>]
             = "authenticated")
  /\ password' = ""
  /\ historyData' = <<>>
  /\ valuationResult' = Null
  /\ error' = Null
  /\ isLoading' = FALSE
  /\ showTimeoutWarning' = FALSE
  /\ call' = Null
  /\ written' = EmptyRecord
  /\ renderPending' = FALSE
  /\ \E r \in {resetTimer({}, 0, 0, now)} :
       /\ timers' = r.timers
       /\ timeoutRef' = r.timeoutRef
       /\ warningRef' = r.warningRef
  /\ lastActivityRef' = now
  /\ UNCHANGED <<sanitizerVars, now, ticks, lastRead, mounted, lastEventAt>>

\* the component using the hook is unmounted: the effect's cleanup
Unmount ==
  /\ mounted
  /\ mounted' = FALSE
  /\ renderPending' = FALSE
  /\ timers' = {x \in timers : x.id \notin {timeoutRef, warningRef}}
  /\ UNCHANGED <<sanitizerVars, now, ticks, sessionStorage, written, lastRead, call,
                 isAuthenticated, password, historyData, valuationResult, error,
                 isLoading, showTimeoutWarning, timeoutRef, warningRef,
                 lastActivityRef, lastEventAt, fired>>

\* time passes: the warning period, or the rest of the timeout.  A pending
\* effect runs within the frame of its render, before minutes pass; a timer
\* may be late (a throttled tab, a sleeping machine).
AdvanceMinutes ==
  /\ ticks < MaxIdleSteps
  /\ ~renderPending
  /\ \E d \in {(timeoutMinutes - warningMinutes) * 60 * 1000,
               warningMinutes * 60 * 1000} : now' = now + d
  /\ ticks' = ticks + 1
  /\ UNCHANGED <<sanitizerVars, sessionStorage, written, lastRead, call,
                 isAuthenticated, password, historyData, valuationResult, error,
                 isLoading, showTimeoutWarning, mounted, renderPending, timers,
                 timeoutRef, warningRef, lastActivityRef, lastEventAt, fired>>

\* the page has loaded in a new tab: nothing stored, the login form shown,
\* the hook's effect has run.  Or, at that same instant, the user has
\* logged in, entered a ledger and submitted the form for a car that is not
\* cached: the states HandleLogin, HandleDataChange and HandleAnalyze lead
\* to, the effect not having re-run yet.
SessionInit ==
  /\ now = 0
  /\ ticks = 0
  /\ written = EmptyRecord
  /\ password \in {"", "autovaluate2024"}
  /\ isAuthenticated = (password # "")
  /\ valuationResult = Null
  /\ error = Null
  /\ showTimeoutWarning = FALSE
  /\ mounted = TRUE
  /\ \E r \in {resetTimer({}, 0, 0, 0)} :
       timers = r.timers /\ timeoutRef = r.timeoutRef /\ warningRef = r.warningRef
  /\ lastActivityRef = 0
  /\ lastEventAt = -1
  /\ fired = <<>>
  /\ csvData = <<>>
  /\ targetCar = [brand |-> <<>>, model |-> <<>>]
  /\ maxRecords = DefaultMaxRecords
  /\ scored = <<>>
  /\ sensitiveText = <<>>
  /\ flagged = FALSE
  /\ IF ~isAuthenticated
       THEN /\ sessionStorage = EmptyRecord
            /\ historyData = <<>>
            /\ isLoading = FALSE
            /\ renderPending = FALSE
            /\ lastRead = Null
            /\ call = Null
            /\ pc = "ready"
            /\ allRecords = <<>>
            /\ relevantRecords = <<>>
            /\ aggregated = <<>>
            /\ exactMatches = <<>>
            /\ result = NoResult
            /\ returned = <<>>
       ELSE /\ sessionStorage =
                 (<<"a","u","t","h","_","s","t","a","t","u","s">> :> "authenticated")
                 @@ (<<"l","o","g","i","n","_","t","i","m","e">> :> IntToStr(0))
            /\ historyData = join(<<HeaderYear, Row1>>, <<"\n">>)
            /\ isLoading = TRUE
            /\ renderPending = TRUE
            /\ \E car \in {c \in Cars : c.model = Str_Swift} :
                 \E run \in {SanitizeRun(historyData,
                                         [brand |-> car.brand, model |-> car.model])} :
                   /\ lastRead = [car |-> car, at |-> 0, value |-> Null]
                   /\ call = [pc |-> "awaiting", car |-> car, hit |-> FALSE,
                              before |-> sessionStorage, value |-> Null]
                   /\ pc = "done"
                   /\ allRecords = run.allRecords
                   /\ relevantRecords = run.relevantRecords
                   /\ aggregated = run.aggregated
                   /\ exactMatches = run.exactMatches
                   /\ result = ReturnValue(run)
                   /\ returned = <<[csvData |-> historyData,
                                    targetCar |-> [brand |-> car.brand,
                                                   model |-> car.model],
                                    result |-> ReturnValue(run)]>>

SessionNext ==
  \/ HandleLogin
  \/ HandleLogout
  \/ HandleDataChange
  \/ AnalyzeSucceed
  \/ AnalyzeFail
  \/ HandleActivity
  \/ RunEffect
  \/ FireWarning
  \/ FireHide
  \/ HandleTimeout
  \/ Unmount
  \/ AdvanceMinutes

SessionSpec == SessionInit /\ [][SessionNext]_vars

(***************************************************************************)
(* Properties                                                              *)
(***************************************************************************)

\* C1: the insights returned by sanitizeHistoricalData carry no individual
\* record's bought price, sold price or own margin.
C1_NoPerRecordFinancialData ==
  pc = "done" =>
    \A i \in 1..Len(result.insights) :
      DOMAIN result.insights[i] \cap {"buyLakhs", "sellLakhs", "margin"} = {}

\* C2: parseCSV returns no record when the text has fewer than two non-blank
\* lines (empty and white-space-only texts included); and when the trimmed
\* text splits into two or more lines, the text has at least two non-blank
\* lines and parseCSV returns at least one record.
C2_ParseNeedsTwoLines ==
  pc = "parsed" =>
    LET raw == split(csvData, "\n")
        nonBlank == Cardinality({i \in 1..Len(raw) : trim(raw[i]) # <<>>})
    IN  /\ nonBlank < 2 => allRecords = <<>>
        /\ Len(split(trim(csvData), "\n")) >= 2 =>
             nonBlank >= 2 /\ Len(allRecords) >= 1

\* C2 witness: a text with a newline in it but only one non-blank line
C2_Witness ==
  /\ pc = "parsed"
  /\ \E i \in 1..Len(csvData) : csvData[i] = "\n"
  /\ Cardinality({i \in 1..Len(split(csvData, "\n")) :
                    trim(split(csvData, "\n")[i]) # <<>>}) = 1
  /\ allRecords = <<>>

\* C3: sanitizeHistoricalData returns the single line "No historical data
\* available." for an empty or white-space-only text, the single line "No
\* valid historical data found." for a non-blank text that parses to zero
\* records, and marginData null in both cases.
C3_DefaultOutputs ==
  pc = "done" =>
    /\ trim(csvData) = <<>> =>
         result = [insights |-> <<[kind |-> "fixed",
                                   text |-> "No historical data available."]>>,
                   marginData |-> Null]
    /\ (trim(csvData) # <<>> /\ Len(allRecords) = 0) =>
         result = [insights |-> <<[kind |-> "fixed",
                                   text |-> "No valid historical data found."]>>,
                   marginData |-> Null]

\* C3 witness: a white-space-only text that is not empty
C3_Witness ==
  /\ pc = "done"
  /\ Len(csvData) > 0
  /\ trim(csvData) = <<>>
  /\ result.insights[1].text = "No historical data available."

\* C4: a record whose model equals the target model (ignoring case) scores
\* exactly 150 when its brand equals the target brand too, and exactly 100
\* when it does not.
C4_ExactModelScore ==
  pc = "scored" =>
    LET r == scored[1].record
    IN  (Has(r, "model") /\ toLowerCase(r.model) = toLowerCase(targetCar.model)) =>
          scored[1].score =
            IF Has(r, "brand") /\ toLowerCase(r.brand) = toLowerCase(targetCar.brand)
              THEN 150 ELSE 100

\* C5 as stated: a record whose brand equals the target brand and whose
\* non-empty model differs from the target model, one containing the other
\* (ignoring case), scores exactly 125.
C5_Original ==
  pc = "scored" =>
    LET r == scored[1].record
    IN  (/\ Has(r, "brand") /\ toLowerCase(r.brand) = toLowerCase(targetCar.brand)
         /\ Has(r, "model") /\ r.model # <<>>
         /\ toLowerCase(r.model) # toLowerCase(targetCar.model)
         /\ \/ includes(toLowerCase(r.model), toLowerCase(targetCar.model))
            \/ includes(toLowerCase(targetCar.model), toLowerCase(r.model)))
        => scored[1].score = 125

\* C5 amended: the same, when the target model is not empty either.
C5_PartialModelScore ==
  pc = "scored" =>
    LET r == scored[1].record
    IN  (/\ Has(r, "brand") /\ toLowerCase(r.brand) = toLowerCase(targetCar.brand)
         /\ Has(r, "model") /\ r.model # <<>>
         /\ targetCar.model # <<>>
         /\ toLowerCase(r.model) # toLowerCase(targetCar.model)
         /\ \/ includes(toLowerCase(r.model), toLowerCase(targetCar.model))
            \/ includes(toLowerCase(targetCar.model), toLowerCase(r.model)))
        => scored[1].score = 125

\* C5 witness: the target model contains the record's shorter model
C5_Witness ==
  /\ pc = "scored"
  /\ Has(scored[1].record, "brand") /\ Has(scored[1].record, "model")
  /\ toLowerCase(scored[1].record.brand) = toLowerCase(targetCar.brand)
  /\ Len(scored[1].record.model) > 0
  /\ Len(scored[1].record.model) < Len(targetCar.model)
  /\ includes(toLowerCase(targetCar.model), toLowerCase(scored[1].record.model))
  /\ scored[1].score = 125

\* C6: the output of smartFilter has at most maxRecords records, their
\* relevance scores never increase along the output, none of them scores 0,
\* and each of them is one of the input records.
C6_FilterBoundedSortedRelevant ==
  pc = "filtered" =>
    /\ Len(relevantRecords) <= maxRecords
    /\ \A i \in 1..(Len(relevantRecords) - 1) :
         calculateRelevance(relevantRecords[i], targetCar)
           >= calculateRelevance(relevantRecords[i + 1], targetCar)
    /\ \A i \in 1..Len(relevantRecords) :
         /\ calculateRelevance(relevantRecords[i], targetCar) # 0
         /\ \E j \in 1..Len(allRecords) : allRecords[j] = relevantRecords[i]

\* C6 witness: more relevant records than maxRecords, given out of order
C6_Witness ==
  /\ pc = "filtered"
  /\ maxRecords >= 1
  /\ Len(relevantRecords) = maxRecords
  /\ Cardinality({j \in 1..Len(allRecords) :
                    calculateRelevance(allRecords[j], targetCar) > 0}) > maxRecords
  /\ \E j \in 1..(Len(allRecords) - 1) :
       /\ calculateRelevance(allRecords[j], targetCar) > 0
       /\ calculateRelevance(allRecords[j], targetCar)
            < calculateRelevance(allRecords[j + 1], targetCar)

\* C7: the avgMargin of every group emitted by aggregateData is the mean of
\* (soldPrice - boughtPrice) / boughtPrice * 100 over the records of the
\* group that have both prices present and boughtPrice > 0, a sold price of
\* 0 counting as present.
C7_AvgOverPresentPrices ==
  pc = "aggregated" =>
    \A n \in 1..Len(aggregated) :
      LET InGroup(r) == GroupKey(r) = aggregated[n].brandModel
          Eligible(r) == /\ Has(r, "boughtPrice") /\ ~IsNaN(r.boughtPrice)
                         /\ Has(r, "soldPrice") /\ ~IsNaN(r.soldPrice)
                         /\ Positive(r.boughtPrice)
          eligible == SelectSeq(SelectSeq(relevantRecords, InGroup), Eligible)
      IN  aggregated[n].avgMargin =
            Div(Sum([i \in 1..Len(eligible) |->
                       Mul(Div(Sub(eligible[i].soldPrice, eligible[i].boughtPrice),
                               eligible[i].boughtPrice), Whole(100))]),
                Whole(Len(eligible)))

\* C8: every group emitted by aggregateData has at least one record with
\* both prices present and boughtPrice > 0, and its avgMargin is a finite
\* number.
C8_NoEmptyGroup ==
  pc = "aggregated" =>
    \A n \in 1..Len(aggregated) :
      LET InGroup(r) == GroupKey(r) = aggregated[n].brandModel
          Eligible(r) == /\ Has(r, "boughtPrice") /\ ~IsNaN(r.boughtPrice)
                         /\ Has(r, "soldPrice") /\ ~IsNaN(r.soldPrice)
                         /\ Positive(r.boughtPrice)
      IN  /\ Len(SelectSeq(SelectSeq(relevantRecords, InGroup), Eligible)) >= 1
          /\ IsFinite(aggregated[n].avgMargin)

\* C8 witness: one group is emitted and another, whose records have no
\* usable prices, is left out
C8_Witness ==
  /\ pc = "aggregated"
  /\ Len(aggregated) >= 1
  /\ \E i \in 1..Len(relevantRecords) :
       /\ ~AggregateEligible(relevantRecords[i])
       /\ \A n \in 1..Len(aggregated) :
            aggregated[n].brandModel # GroupKey(relevantRecords[i])

\* C9: for the header Brand,Model,Year,BoughtPrice,SoldPrice with the rows
\* Maruti,Swift,2018,450000,520000 and Maruti,Swift,2019,400000,460000 and
\* the target Maruti Swift, exactMatches has two records, the percentage is
\* the mean 275/18 (15.28) of the two margins, the description is "2 similar
\* Maruti Swift transactions", and the insights hold the priority header and
\* one transaction line per record.
C9_RoundTrip ==
  (/\ pc = "done"
   /\ csvData = join(<<HeaderYear, Row1, Row2>>, <<"\n">>)
   /\ targetCar = [brand |-> Str_Maruti, model |-> Str_Swift])
  =>
    LET lines == result.insights
        IsTxn(l) == l.kind = "transaction"
        txns == SelectSeq(lines, IsTxn)
    IN  /\ Len(exactMatches) = 2
        /\ result.marginData # Null
        /\ result.marginData.percentage = <<275, 18>>
        /\ toFixed(result.marginData.percentage, 2) = <<"1","5",".","2","8">>
        /\ result.marginData.description = <<"2"," ","s","i","m","i","l","a","r"," ","M","a","r","u","t","i"," ","S","w","i","f","t"," ","t","r","a","n","s","a","c","t","i","o","n","s">>
        /\ lines[1] = [kind |-> "priority", brand |-> <<"M","A","R","U","T","I">>, model |-> <<"S","W","I","F","T">>]
        /\ Len(txns) = 2
        /\ txns[1].yearStr = <<" ","(","2","0","1","8",")">> /\ txns[1].buyLakhs = <<"4",".","5","0">>
        /\ txns[1].sellLakhs = <<"5",".","2","0">> /\ txns[1].margin = <<"1","5",".","6">>
        /\ txns[2].yearStr = <<" ","(","2","0","1","9",")">> /\ txns[2].buyLakhs = <<"4",".","0","0">>
        /\ txns[2].sellLakhs = <<"4",".","6","0">> /\ txns[2].margin = <<"1","5",".","0">>

\* C9 witness: the call on that ledger and target has returned
C9_Witness ==
  /\ pc = "done"
  /\ csvData = join(<<HeaderYear, Row1, Row2>>, <<"\n">>)
  /\ targetCar = [brand |-> Str_Maruti, model |-> Str_Swift]
  /\ Len(result.insights) = 5

\* C10 as stated: for a ledger of Maruti Swift rows only and the target
\* Honda City there is no exact match, no group key contains Honda,
\* marginData is null, and the insights hold a line saying that no Honda
\* transactions were found.
C10_Original ==
  (/\ pc = "done"
   /\ targetCar = [brand |-> Str_Honda, model |-> Str_City]
   /\ Len(allRecords) >= 1
   /\ \A i \in 1..Len(allRecords) :
        /\ Has(allRecords[i], "brand") /\ allRecords[i].brand = Str_Maruti
        /\ Has(allRecords[i], "model") /\ allRecords[i].model = Str_Swift)
  =>
    /\ exactMatches = <<>>
    /\ \A n \in 1..Len(aggregated) :
         ~includes(toLowerCase(aggregated[n].brandModel), toLowerCase(Str_Honda))
    /\ result.marginData = Null
    /\ \E i \in 1..Len(result.insights) :
         result.insights[i].kind = "noBrandTransactions"

\* C10 amended: in that case there is no exact match, no group key contains
\* Honda, marginData is null, and the insights are the line saying that
\* there are no exact past transactions for Honda City followed by the
\* database context line; nothing is said about brand transactions.
C10_NoMatch ==
  (/\ pc = "done"
   /\ targetCar = [brand |-> Str_Honda, model |-> Str_City]
   /\ Len(allRecords) >= 1
   /\ \A i \in 1..Len(allRecords) :
        /\ Has(allRecords[i], "brand") /\ allRecords[i].brand = Str_Maruti
        /\ Has(allRecords[i], "model") /\ allRecords[i].model = Str_Swift)
  =>
    /\ exactMatches = <<>>
    /\ \A n \in 1..Len(aggregated) :
         ~includes(toLowerCase(aggregated[n].brandModel), toLowerCase(Str_Honda))
    /\ result.marginData = Null
    /\ result.insights =
         <<[kind |-> "noExact", brand |-> Str_Honda, model |-> Str_City],
           [kind |-> "context", total |-> Len(allRecords)]>>

\* C10 witness: two Maruti Swift rows valued against Honda City
C10_Witness ==
  /\ pc = "done"
  /\ targetCar = [brand |-> Str_Honda, model |-> Str_City]
  /\ Len(allRecords) = 2
  /\ \A i \in 1..Len(allRecords) :
       /\ Has(allRecords[i], "brand") /\ allRecords[i].brand = Str_Maruti
       /\ Has(allRecords[i], "model") /\ allRecords[i].model = Str_Swift
  /\ result.marginData = Null

\* C11: containsSensitiveData(text) is true exactly when the text has a run
\* of five or more digits, or has one of the words bought, sold, price,
\* margin (in any case) with a digit anywhere after it, on the same line or
\* on a later one; a text without a digit is never flagged.
C11_FlaggedIff ==
  pc = "checked" =>
    /\ flagged <=>
         \/ \E i \in 1..(Len(sensitiveText) - 4) : \A j \in i..(i + 4) : IsDigit(sensitiveText[j])
         \/ \E word \in {Lit_bought, Lit_sold, Lit_price, Lit_margin} :
              \E i \in 1..(Len(sensitiveText) - Len(word) + 1) :
                /\ toLowerCase(SubSeq(sensitiveText, i, i + Len(word) - 1)) = word
                /\ \E j \in (i + Len(word))..Len(sensitiveText) : IsDigit(sensitiveText[j])
    /\ (\A j \in 1..Len(sensitiveText) : ~IsDigit(sensitiveText[j])) => ~flagged


C13_NeverRaises ==
  /\ pc # "raised"
  /\ pc = "ready" => ~SanitizeRaises(csvData, targetCar)
  /\ pc = "done" =>
       /\ DOMAIN result = {"insights", "marginData"}
       /\ Len(result.insights) >= 1
       /\ \A i \in 1..Len(result.insights) :
            result.insights[i].kind \in
              {"fixed", "priority", "transaction", "average", "noExact", "context"}
       /\ \/ result.marginData = Null
          \/ /\ DOMAIN result.marginData = {"percentage", "description"}
             /\ result.marginData.percentage \in Int \X Int
             /\ Len(result.marginData.description) >= 1

\* C13 witness: a returned call on a ledger with a row shorter than the
\* header that lacks the model, and with a non-numeric price cell
C13_Witness ==
  /\ pc = "done"
  /\ Len(relevantRecords) >= 1
  /\ \E i \in 1..Len(allRecords) :
       ~Has(allRecords[i], "model") /\ ~Has(allRecords[i], "year")
  /\ \E i \in 1..Len(allRecords) :
       Has(allRecords[i], "boughtPrice") /\ IsNaN(allRecords[i].boughtPrice)

\* C14: the output of smartFilter is the first maxRecords records of the
\* ledger's non-zero-score records ordered by descending score, records of
\* equal score in ledger order: with s the scores of the ledger's records,
\* the record of rank n, counting the records that score more and the
\* earlier records that score the same, is the n-th output, and every
\* dropped non-zero-score record scores no more than every kept one.
C14_StableTopK ==
  pc = "filtered" =>
    \A s \in {[j \in 1..Len(allRecords) |->
                  calculateRelevance(allRecords[j], targetCar)]} :
      LET P == {j \in 1..Len(allRecords) : s[j] > 0}
          rank(j) == 1 + Cardinality({k \in P : s[k] > s[j] \/ (s[k] = s[j] /\ k < j)})
      IN  /\ Len(relevantRecords) = Min({maxRecords, Cardinality(P)})
          /\ \A j \in P :
               rank(j) <= maxRecords => relevantRecords[rank(j)] = allRecords[j]
          /\ \A j, k \in P :
               (rank(j) > maxRecords /\ rank(k) <= maxRecords) => s[j] <= s[k]

\* C14 witness: two different records of equal score, the earlier one kept
\* as the last output and the later one dropped
C14_Witness ==
  /\ pc = "filtered"
  /\ maxRecords >= 1
  /\ Len(relevantRecords) = maxRecords
  /\ \E j, k \in 1..Len(allRecords) :
       /\ j < k
       /\ allRecords[j] # allRecords[k]
       /\ calculateRelevance(allRecords[j], targetCar) > 0
       /\ calculateRelevance(allRecords[j], targetCar)
            = calculateRelevance(allRecords[k], targetCar)
       /\ relevantRecords[maxRecords] = allRecords[j]
       /\ \A n \in 1..Len(relevantRecords) : relevantRecords[n] # allRecords[k]

\* C15 as stated: calculateRelevance returns 0 exactly when the record's
\* brand does not equal the target brand (ignoring case) and the record's
\* model neither equals the target model, nor contains it, nor is contained
\* in it; otherwise the score is positive.
C15_Original ==
  pc = "scored" =>
    LET r == scored[1].record
        brandEq == Has(r, "brand") /\ toLowerCase(r.brand) = toLowerCase(targetCar.brand)
        modelRel == /\ Has(r, "model")
                    /\ \/ toLowerCase(r.model) = toLowerCase(targetCar.model)
                       \/ includes(toLowerCase(r.model), toLowerCase(targetCar.model))
                       \/ includes(toLowerCase(targetCar.model), toLowerCase(r.model))
    IN  /\ scored[1].score = 0 <=> (~brandEq /\ ~modelRel)
        /\ scored[1].score >= 0

\* C15 amended: the same, with containment counted only between two
\* non-empty models.
C15_ZeroIff ==
  pc = "scored" =>
    LET r == scored[1].record
        brandEq == Has(r, "brand") /\ toLowerCase(r.brand) = toLowerCase(targetCar.brand)
        modelRel == /\ Has(r, "model")
                    /\ \/ toLowerCase(r.model) = toLowerCase(targetCar.model)
                       \/ /\ r.model # <<>>
                          /\ targetCar.model # <<>>
                          /\ \/ includes(toLowerCase(r.model), toLowerCase(targetCar.model))
                             \/ includes(toLowerCase(targetCar.model), toLowerCase(r.model))
    IN  /\ scored[1].score = 0 <=> (~brandEq /\ ~modelRel)
        /\ scored[1].score >= 0

\* C15 witness: a record of another brand with an empty model, which every
\* target model contains, scores 0
C15_Witness ==
  /\ pc = "scored"
  /\ scored[1].score = 0
  /\ Has(scored[1].record, "brand")
  /\ Has(scored[1].record, "model")
  /\ scored[1].record.model = <<>>
  /\ targetCar.model # <<>>

\* C16: a brand that is absent or empty on the record or empty on the target
\* adds nothing to the score, and neither does such a model: with the brand
\* missing on a side the score is one of the model's 0, 75, 100, 175, with
\* the model missing on a side it is 0 or 50, and with both missing it is 0.
C16_MissingContributesNothing ==
  pc = "scored" =>
    LET r == scored[1].record
        brandMissing == ~Has(r, "brand") \/ r.brand = <<>> \/ targetCar.brand = <<>>
        modelMissing == ~Has(r, "model") \/ r.model = <<>> \/ targetCar.model = <<>>
    IN  /\ brandMissing => scored[1].score \in {0, 75, 100, 175}
        /\ modelMissing => scored[1].score \in {0, 50}
        /\ (brandMissing /\ modelMissing) => scored[1].score = 0

\* C17 as stated: when the trimmed text has two lines or more, parseCSV
\* returns one record per line after the header, in row order: the record
\* of a row holds, for each field the header names, the trimmed cell of that
\* column (parsed as a number for the two prices); a field whose column the
\* row does not reach is absent from the record, and the cells beyond the
\* header's columns are ignored.
C17_Original ==
  pc = "parsed" =>
    LET lines == split(trim(csvData), "\n")
        hs == TrimAll(split(toLowerCase(lines[1]), ","))
        Cols(words) == {j \in 1..Len(hs) : \E w \in words : includes(hs[j], w)}
        TextFields == {<<"brand", {Lit_brand}>>, <<"model", {Lit_model}>>,
                       <<"variant", {Lit_variant}>>, <<"year", {Lit_year}>>,
                       <<"date", {Lit_date}>>}
        PriceFields == {<<"boughtPrice", {Lit_bought, Lit_purchase}>>,
                        <<"soldPrice", {Lit_sold, Lit_sale}>>}
    IN  Len(lines) >= 2 =>
          /\ Len(allRecords) = Len(lines) - 1
          /\ \A k \in 1..Len(allRecords) :
               LET cells == split(lines[k + 1], ",")
                   r == allRecords[k]
               IN  /\ \A fw \in TextFields :
                        IF Cols(fw[2]) = {} \/ Max(Cols(fw[2]) \cup {0}) > Len(cells)
                          THEN ~Has(r, fw[1])
                          ELSE Has(r, fw[1]) /\ r[fw[1]] = trim(cells[Max(Cols(fw[2]))])
                   /\ \A fw \in PriceFields :
                        IF Cols(fw[2]) = {} THEN ~Has(r, fw[1])
                        ELSE IF Max(Cols(fw[2])) > Len(cells) THEN ~Has(r, fw[1])
                        ELSE /\ Has(r, fw[1])
                             /\ r[fw[1]] = parseFloat(TRUE, trim(cells[Max(Cols(fw[2]))]))

\* C17 amended: the same, except that a price whose column the row does not
\* reach is not absent: the record holds the not-a-number value for it.
C17_OneRecordPerRow ==
  pc = "parsed" =>
    LET lines == split(trim(csvData), "\n")
        hs == TrimAll(split(toLowerCase(lines[1]), ","))
        Cols(words) == {j \in 1..Len(hs) : \E w \in words : includes(hs[j], w)}
        TextFields == {<<"brand", {Lit_brand}>>, <<"model", {Lit_model}>>,
                       <<"variant", {Lit_variant}>>, <<"year", {Lit_year}>>,
                       <<"date", {Lit_date}>>}
        PriceFields == {<<"boughtPrice", {Lit_bought, Lit_purchase}>>,
                        <<"soldPrice", {Lit_sold, Lit_sale}>>}
    IN  Len(lines) >= 2 =>
          /\ Len(allRecords) = Len(lines) - 1
          /\ \A k \in 1..Len(allRecords) :
               LET cells == split(lines[k + 1], ",")
                   r == allRecords[k]
               IN  /\ \A fw \in TextFields :
                        IF Cols(fw[2]) = {} \/ Max(Cols(fw[2]) \cup {0}) > Len(cells)
                          THEN ~Has(r, fw[1])
                          ELSE Has(r, fw[1]) /\ r[fw[1]] = trim(cells[Max(Cols(fw[2]))])
                   /\ \A fw \in PriceFields :
                        IF Cols(fw[2]) = {} THEN ~Has(r, fw[1])
                        ELSE IF Max(Cols(fw[2])) > Len(cells) THEN Has(r, fw[1]) /\ IsNaN(r[fw[1]])
                        ELSE /\ Has(r, fw[1])
                             /\ r[fw[1]] = parseFloat(TRUE, trim(cells[Max(Cols(fw[2]))]))

\* C17 witness: two rows under a three-column header, one with fewer cells
\* and one with more, both turned into records
C17_Witness ==
  /\ pc = "parsed"
  /\ Len(allRecords) = 2
  /\ LET lines == split(trim(csvData), "\n")
         n == Len(split(lines[1], ","))
     IN  /\ n = 3
         /\ \E k \in 2..3 : Len(split(lines[k], ",")) < n
         /\ \E k \in 2..3 : Len(split(lines[k], ",")) > n
  /\ \E k \in 1..2 : ~Has(allRecords[k], "model")
  /\ \E k \in 1..2 : Has(allRecords[k], "variant") /\ allRecords[k].variant # <<>>

\* C18: a record whose bought or sold price is not-a-number is treated as a
\* record without that price: aggregateData and the composer give what
\* they give when the not-a-number prices are taken out of the records;
\* every group's avgMargin and the composer's average are means over
\* records whose two prices are numbers, and no transaction line is written
\* for a record with a not-a-number price.
C18_NaNIsAbsent ==
  LET IsNaNPrice(r, f) == f \in {"boughtPrice", "soldPrice"} /\ IsNaN(r[f])
      Strip(r) == [f \in {g \in DOMAIN r : ~IsNaNPrice(r, g)} |-> r[f]]
      StripAll(rs) == [i \in 1..Len(rs) |-> Strip(rs[i])]
      Clean(r) == \A f \in DOMAIN r : ~IsNaNPrice(r, f)
      Priced(r) == /\ Clean(r) /\ Has(r, "boughtPrice") /\ Has(r, "soldPrice")
                   /\ TruthyNum(r.boughtPrice) /\ TruthyNum(r.soldPrice)
      IsTxn(l) == l.kind = "transaction"
      IsAvg(l) == l.kind = "average"
  IN  /\ pc \in {"aggregated", "done"} =>
           /\ aggregated = aggregateData(StripAll(relevantRecords))
           /\ \A n \in 1..Len(aggregated) :
                LET InGroup(r) == GroupKey(r) = aggregated[n].brandModel
                    Counted(r) == Priced(r) /\ Positive(r.boughtPrice)
                    counted == SelectSeq(SelectSeq(relevantRecords, InGroup), Counted)
                IN  /\ Len(counted) >= 1
                    /\ aggregated[n].avgMargin = Mean(MapMargin(counted))
      /\ pc = "done" =>
           /\ result = ReturnValue(SanitizeRelevant(allRecords, StripAll(relevantRecords),
                                                     targetCar))
                \/ Len(allRecords) = 0
           /\ Len(SelectSeq(result.insights, IsTxn))
                = Len(SelectSeq(slice0(exactMatches, MaxListed), Priced))
           /\ \A i \in 1..Len(result.insights) :
                IsAvg(result.insights[i]) =>
                  /\ result.insights[i].count = Len(SelectSeq(exactMatches, Priced))
                  /\ result.marginData.percentage
                       = Mean(MapMargin(SelectSeq(exactMatches, Priced)))

\* C18 witness: two exact matches, one of them with a non-numeric bought
\* price: one transaction line, an average over one record, a group of two
C18_Witness ==
  /\ pc = "done"
  /\ Len(exactMatches) = 2
  /\ \A i \in 1..2 : Has(exactMatches[i], "boughtPrice")
  /\ \E i \in 1..2 : IsNaN(exactMatches[i].boughtPrice)
  /\ \E i \in 1..2 : ~IsNaN(exactMatches[i].boughtPrice)
  /\ Cardinality({i \in 1..Len(result.insights) :
                    result.insights[i].kind = "transaction"}) = 1
  /\ \E i \in 1..Len(result.insights) :
       result.insights[i].kind = "average" /\ result.insights[i].count = 1
  /\ Len(aggregated) = 1
  /\ aggregated[1].count = 2
  /\ IsFinite(aggregated[1].avgMargin)

\* C19: the groups returned by aggregateData are in order of non-increasing
\* count, and of two groups with the same count the one whose key appears
\* first among the input records comes first.
C19_SortedByCount ==
  pc \in {"aggregated", "done"} =>
    LET First(key) == Min({i \in 1..Len(relevantRecords) :
                             GroupKey(relevantRecords[i]) = key})
    IN  \A n, m \in 1..Len(aggregated) :
          n < m =>
            /\ aggregated[n].count >= aggregated[m].count
            /\ \A g \in {n, m} :
                 \E i \in 1..Len(relevantRecords) :
                   GroupKey(relevantRecords[i]) = aggregated[g].brandModel
            /\ aggregated[n].count = aggregated[m].count =>
                 First(aggregated[n].brandModel) < First(aggregated[m].brandModel)

\* C19 witness: the group seen first has the smaller count and is returned
\* after a group seen later
C19_Witness ==
  /\ pc \in {"aggregated", "done"}
  /\ \E n, m \in 1..Len(aggregated) :
       /\ n < m
       /\ aggregated[n].count > aggregated[m].count
       /\ \E i \in 1..Len(relevantRecords) :
            /\ GroupKey(relevantRecords[i]) = aggregated[m].brandModel
            /\ \A j \in 1..i : GroupKey(relevantRecords[j]) # aggregated[n].brandModel

\* C20: the key of a record is its brand, a space and its model, the word
\* Unknown standing for a brand or model that is absent or empty; every
\* returned group's count is the number of input records with the group's
\* key, whether or not they are margin-eligible; no two returned groups have
\* the same key; the counts add up to no more than the number of records.
C20_GroupKeyAndCount ==
  pc \in {"aggregated", "done"} =>
    LET Part(r, f) == IF f \in DOMAIN r /\ r[f] # <<>> THEN r[f]
                      ELSE <<"U","n","k","n","o","w","n">>
        Key(r) == Part(r, "brand") \o <<" ">> \o Part(r, "model")
        Members(key) == {i \in 1..Len(relevantRecords) : Key(relevantRecords[i]) = key}
    IN  /\ \A n \in 1..Len(aggregated) :
             /\ aggregated[n].count >= 1
             /\ aggregated[n].count = Cardinality(Members(aggregated[n].brandModel))
        /\ \A n, m \in 1..Len(aggregated) :
             n # m => aggregated[n].brandModel # aggregated[m].brandModel
        /\ SumCount(aggregated) <= Len(relevantRecords)

\* C20 witness: a group counting a record that is not margin-eligible, and
\* a group whose key has Unknown for an empty model
C20_Witness ==
  /\ pc \in {"aggregated", "done"}
  /\ \E n \in 1..Len(aggregated) :
       aggregated[n].count >
         Cardinality({i \in 1..Len(relevantRecords) :
                        /\ GroupKey(relevantRecords[i]) = aggregated[n].brandModel
                        /\ AggregateEligible(relevantRecords[i])})
  /\ \E n \in 1..Len(aggregated) :
       aggregated[n].brandModel = Str_Maruti \o <<" ">> \o Lit_Unknown
  /\ SumCount(aggregated) < Len(relevantRecords)

\* C21 as stated: when there are exact matches, the insights hold exactly
\* min(5, |exactMatches|) transaction lines, the i-th for the i-th exact
\* match, right after the priority header, with N/A for a missing date.
C21_Original ==
  (pc = "done" /\ Len(exactMatches) > 0) =>
    LET IsTxn(l) == l.kind = "transaction"
        txns == SelectSeq(result.insights, IsTxn)
        first5 == SubSeq(exactMatches, 1, Min({5, Len(exactMatches)}))
        Priced(r) == /\ Has(r, "boughtPrice") /\ Has(r, "soldPrice")
                     /\ r.boughtPrice[1] # 0 /\ r.soldPrice[1] # 0
        listed == first5
    IN  /\ Len(txns) = Len(listed)
        /\ \A i \in 1..Len(txns) :
             /\ result.insights[i + 1] = txns[i]
             /\ txns[i].date = IF Has(listed[i], "date") /\ listed[i].date # <<>>
                                 THEN listed[i].date ELSE <<"N","/","A">>
             /\ txns[i].modelStr = listed[i].brand \o <<" ">> \o listed[i].model
             /\ Has(listed[i], "boughtPrice") =>
                  txns[i].buyLakhs = toFixed(Div(listed[i].boughtPrice, Whole(100000)), 2)

\* C21 amended: the transaction lines are those of the exact matches, among
\* the first 5, whose bought and sold prices are both numbers other than 0,
\* in their order, so there are at most min(5, |exactMatches|) of them.
C21_ListedTransactions ==
  (pc = "done" /\ Len(exactMatches) > 0) =>
    LET IsTxn(l) == l.kind = "transaction"
        txns == SelectSeq(result.insights, IsTxn)
        first5 == SubSeq(exactMatches, 1, Min({5, Len(exactMatches)}))
        Priced(r) == /\ Has(r, "boughtPrice") /\ Has(r, "soldPrice")
                     /\ r.boughtPrice[1] # 0 /\ r.soldPrice[1] # 0
        listed == SelectSeq(first5, Priced)
    IN  /\ Len(txns) = Len(listed)
        /\ \A i \in 1..Len(txns) :
             /\ result.insights[i + 1] = txns[i]
             /\ txns[i].date = IF Has(listed[i], "date") /\ listed[i].date # <<>>
                                 THEN listed[i].date ELSE <<"N","/","A">>
             /\ txns[i].modelStr = listed[i].brand \o <<" ">> \o listed[i].model
             /\ Has(listed[i], "boughtPrice") =>
                  txns[i].buyLakhs = toFixed(Div(listed[i].boughtPrice, Whole(100000)), 2)

\* C21 witness: seven exact matches without a date, the third with a
\* non-numeric price: four lines, all dated N/A
C21_Witness ==
  /\ pc = "done"
  /\ Len(exactMatches) = 7
  /\ Has(exactMatches[3], "boughtPrice")
  /\ IsNaN(exactMatches[3].boughtPrice)
  /\ Len(result.insights) >= 5
  /\ Cardinality({i \in 1..Len(result.insights) :
                    result.insights[i].kind = "transaction"}) = 4
  /\ \A i \in 2..5 : result.insights[i].date = Lit_NA

\* C22: when there are exact matches, marginData is non-null exactly when
\* some exact match has both prices present (numbers, the bought price not
\* 0); its percentage is then the mean margin of all such matches, beyond
\* the first 5 too, its description counts them, and the average line of
\* the insights carries the same mean and count.
C22_AverageOverAllPriced ==
  (pc = "done" /\ Len(exactMatches) > 0) =>
    LET Present(r) == /\ Has(r, "boughtPrice") /\ Has(r, "soldPrice")
                      /\ ~IsNaN(r.boughtPrice) /\ ~IsNaN(r.soldPrice)
                      /\ r.boughtPrice[1] # 0
        priced == SelectSeq(exactMatches, Present)
        margins == [i \in 1..Len(priced) |->
                      Mul(Div(Sub(priced[i].soldPrice, priced[i].boughtPrice),
                              priced[i].boughtPrice), Whole(100))]
        IsAvg(l) == l.kind = "average"
        avgLines == SelectSeq(result.insights, IsAvg)
    IN  /\ (result.marginData # Null) <=> (Len(priced) > 0)
        /\ Len(avgLines) = IF Len(priced) > 0 THEN 1 ELSE 0
        /\ Len(priced) > 0 =>
             /\ result.marginData.percentage = Mean(margins)
             /\ result.marginData.description =
                  IntToStr(Len(priced)) \o <<" ","s","i","m","i","l","a","r"," ">>
                  \o targetCar.brand \o <<" ">> \o targetCar.model
                  \o <<" ","t","r","a","n","s","a","c","t","i","o","n","s">>
             /\ avgLines[1].avgMargin = toFixed(Mean(margins), 1)
             /\ avgLines[1].count = Len(priced)

\* C23: without an exact match the insights carry the "no exact past
\* transactions" line for the target; marginData is null exactly when no
\* aggregated group's key contains the target brand, letter case ignored;
\* otherwise its percentage is the sum of avgMargin * count over those
\* groups divided by the sum of their counts, and its description reports
\* that summed count as the brand's transactions (brand average).
C23_BrandFallback ==
  (pc = "done" /\ Len(allRecords) > 0 /\ Len(exactMatches) = 0) =>
    LET OfBrand(a) == includes(toLowerCase(a.brandModel), toLowerCase(targetCar.brand))
        bm == SelectSeq(aggregated, OfBrand)
        total == Sum([i \in 1..Len(bm) |-> Whole(bm[i].count)])
        weighted == Sum([i \in 1..Len(bm) |-> Mul(bm[i].avgMargin, Whole(bm[i].count))])
    IN  /\ result.insights[1] =
             [kind |-> "noExact", brand |-> targetCar.brand, model |-> targetCar.model]
        /\ \A i \in 1..Len(result.insights) :
             result.insights[i].kind \in {"noExact", "context"}
        /\ (result.marginData = Null) <=> (Len(bm) = 0)
        /\ Len(bm) > 0 =>
             /\ result.marginData.percentage = Div(weighted, total)
             /\ result.marginData.description =
                  IntToStr(total[1]) \o <<" ">> \o targetCar.brand
                  \o <<" ","t","r","a","n","s","a","c","t","i","o","n","s"," ",
                       "(","b","r","a","n","d"," ","a","v","e","r","a","g","e",")">>

\* C23 witness: a target written in capitals, no exact match, two groups of
\* the brand with different counts and averages
C23_Witness ==
  /\ pc = "done"
  /\ Len(exactMatches) = 0
  /\ targetCar.brand = <<"M","A","R","U","T","I">>
  /\ Len(aggregated) = 2
  /\ aggregated[1].count = 2 /\ aggregated[2].count = 1
  /\ aggregated[1].avgMargin # aggregated[2].avgMargin
  /\ result.marginData # Null
  /\ result.marginData.percentage = <<370, 27>>

\* C24: whenever parsing yields at least one record, the last line of the
\* insights is the database context line, it is the only one, and it
\* reports the number of parsed records, whether or not there is an exact
\* match and whatever the number of selected records.
C24_ContextLineLast ==
  (pc = "done" /\ Len(parseCSV(csvData)) >= 1 /\ ~IsBlankInput(csvData)) =>
    LET n == Len(result.insights)
    IN  /\ n >= 2
        /\ result.insights[n] =
             [kind |-> "context", total |-> Len(split(trim(csvData), "\n")) - 1]
        /\ \A i \in 1..(n - 1) : result.insights[i].kind # "context"

\* C24 witness: an exact-match run whose ledger holds more records than
\* were selected, and more selected than matched
C24_Witness ==
  /\ pc = "done"
  /\ Len(exactMatches) > 0
  /\ Len(relevantRecords) > Len(exactMatches)
  /\ Len(allRecords) > Len(relevantRecords)
  /\ result.insights[Len(result.insights)].total = Len(allRecords)

\* C29: in the selector's output every exact-match record precedes every
\* record that is not one, so the exact matches it holds are the first
\* min(maxRecords, n) of the n exact-match records of the ledger, in ledger
\* order; with the composer's limit of 50 these are exactMatches.
C29_ExactMatchesFirst ==
  LET IsExact(r) == IsExactMatch(r, targetCar)
      inLedger == SelectSeq(allRecords, IsExact)
      Prefix(limit) == SubSeq(inLedger, 1, Min({limit, Len(inLedger)}))
      ExactFirst(out) ==
        \A i, j \in 1..Len(out) : (IsExact(out[j]) /\ ~IsExact(out[i])) => j < i
  IN  /\ pc = "filtered" =>
           /\ ExactFirst(relevantRecords)
           /\ SelectSeq(relevantRecords, IsExact) = Prefix(maxRecords)
      /\ (pc = "done" /\ Len(allRecords) > 0) =>
           /\ ExactFirst(relevantRecords)
           /\ exactMatches = Prefix(50)

\* C29 witness: the ledger holds a record that is not an exact match before
\* two exact matches; the selector returns the two first, in ledger order,
\* and the other record after them
C29_Witness ==
  /\ pc = "done"
  /\ Len(exactMatches) >= 2
  /\ Len(relevantRecords) > Len(exactMatches)
  /\ ~IsExactMatch(allRecords[1], targetCar)
  /\ allRecords[1] \in {relevantRecords[i] : i \in 1..Len(relevantRecords)}
  /\ exactMatches[1] # exactMatches[2]
  /\ relevantRecords[1] = exactMatches[1]
  /\ relevantRecords[2] = exactMatches[2]

C26_Original ==
  [][
      /\ (call' # call /\ call' # Null /\ call'.pc = "returned" /\ call'.hit) =>
          LET k == generateCacheKey(call'.car)
          IN  /\ call = Null \/ call.pc # "awaiting"
              /\ k \in DOMAIN sessionStorage
              /\ now <= sessionStorage[k].expiresAt
              /\ call'.value = sessionStorage[k].data
              /\ returned' = returned
              /\ sessionStorage' = sessionStorage
      /\ returned' # returned =>
           /\ lastRead' = [car |-> call'.car, at |-> now, value |-> Null]
           /\ call'.pc = "awaiting"
      /\ \A k \in DOMAIN sessionStorage' :
           (k \notin DOMAIN sessionStorage \/ sessionStorage'[k] # sessionStorage[k]) =>
             /\ call # Null /\ call.pc = "awaiting" /\ call'.pc = "returned"
             /\ k = generateCacheKey(call.car)
             /\ sessionStorage'[k].data = call'.value
      /\ (call # Null /\ call.pc = "awaiting" /\ call'.pc = "raised") =>
           sessionStorage' = call.before
    ]_vars

\* C26 amended: the same, except that after a failed call the cache holds
\* no new or changed entry, and the only entry it may have lost is an
\* expired one under the car's key, removed by the lookup.
C26_CacheFirstWriteOnSuccess ==
  [][
      /\ (call' # call /\ call' # Null /\ call'.pc = "returned" /\ call'.hit) =>
          LET k == generateCacheKey(call'.car)
          IN  /\ call = Null \/ call.pc # "awaiting"
              /\ k \in DOMAIN sessionStorage
              /\ now <= sessionStorage[k].expiresAt
              /\ call'.value = sessionStorage[k].data
              /\ returned' = returned
              /\ sessionStorage' = sessionStorage
      /\ returned' # returned =>
           /\ lastRead' = [car |-> call'.car, at |-> now, value |-> Null]
           /\ call'.pc = "awaiting"
      /\ \A k \in DOMAIN sessionStorage' :
           (k \notin DOMAIN sessionStorage \/ sessionStorage'[k] # sessionStorage[k]) =>
             /\ call # Null /\ call.pc = "awaiting" /\ call'.pc = "returned"
             /\ k = generateCacheKey(call.car)
             /\ sessionStorage'[k].data = call'.value
      /\ (call # Null /\ call.pc = "awaiting" /\ call'.pc = "raised") =>
           /\ sessionStorage' = sessionStorage
           /\ \A k \in DOMAIN sessionStorage : k \in DOMAIN call.before
                                                /\ sessionStorage[k] = call.before[k]
           /\ \A k \in DOMAIN call.before \ DOMAIN sessionStorage :
                /\ k = generateCacheKey(call.car)
                /\ call.before[k].expiresAt < now
    ]_vars

\* C26 witness: a call whose lookup removed the expired entry of its key
\* and whose external call then failed
C26_Witness ==
  /\ call # Null
  /\ call.pc = "raised"
  /\ generateCacheKey(call.car) \in DOMAIN call.before
  /\ generateCacheKey(call.car) \notin DOMAIN sessionStorage
  /\ error # Null

\* C27: with the hook mounted, onTimeout fires only when timeoutMinutes
\* have passed since the last activity event and since the timers were last
\* set; an activity event leaves pending exactly the warning and the
\* timeout timer it has just set, the earlier ones being cancelled; at most
\* one timeout timer is pending; once unmounted the hook holds no pending
\* timer and no callback fires.
C27_TimeoutOnlyAfterInactivity ==
  [][
      /\ (Len(fired') > Len(fired) /\ fired'[Len(fired')].kind = "timeout") =>
           /\ mounted
           /\ lastEventAt >= 0 => now - lastEventAt >= timeoutMinutes * 60 * 1000
           /\ now - lastActivityRef >= timeoutMinutes * 60 * 1000
      /\ lastEventAt' # lastEventAt =>
           /\ lastEventAt' = now
           /\ {x \in timers' : x.kind \in {"warning", "timeout"}} =
                {[id |-> warningRef', kind |-> "warning",
                  due |-> now + (timeoutMinutes - warningMinutes) * 60 * 1000],
                 [id |-> timeoutRef', kind |-> "timeout",
                  due |-> now + timeoutMinutes * 60 * 1000]}
           /\ warningRef' # timeoutRef'
      /\ Cardinality({x \in timers' : x.kind = "timeout"}) <= 1
      /\ ~mounted =>
           /\ fired' = fired
           /\ {x \in timers' : x.kind \in {"warning", "timeout"}} = {}
    ]_vars

\* C27 witness: the timeout has fired a quarter of an hour after an
\* activity event, the warning before it
C27_Witness ==
  /\ lastEventAt >= 0
  /\ Len(fired) >= 2
  /\ fired[Len(fired)] = [kind |-> "timeout",
                          at |-> lastEventAt + timeoutMinutes * 60 * 1000]
  /\ fired[Len(fired) - 1].kind = "warning"
  /\ now = lastEventAt + timeoutMinutes * 60 * 1000

\* C28: the step in which the timeout fires or the user logs out leaves
\* session storage empty (no authentication status, no cached valuation),
\* the ledger text empty, no valuation result and no error, and the
\* application unauthenticated; the application becomes authenticated
\* only by a login with the correct password.
C28_ClearedOnTimeoutOrLogout ==
  [][
      /\ (\/ isAuthenticated /\ ~isAuthenticated'
          \/ Len(fired') > Len(fired) /\ fired'[Len(fired')].kind = "timeout") =>
           /\ sessionStorage' = EmptyRecord
           /\ historyData' = <<>>
           /\ valuationResult' = Null
           /\ error' = Null
           /\ ~isAuthenticated'
      /\ (~isAuthenticated /\ isAuthenticated') =>
           /\ password' = "autovaluate2024"
           /\ fired' = fired
           /\ <<"a","u","t","h","_","s","t","a","t","u","s">> \in DOMAIN sessionStorage'
    ]_vars

\* C28 witness: an analysis had succeeded, its result cached and shown,
\* and then the user logged out: nothing is stored, nothing is shown
C28_Witness ==
  /\ call # Null
  /\ call.pc = "returned"
  /\ Len(returned) > 0
  /\ ~isAuthenticated
  /\ password = ""
  /\ sessionStorage = EmptyRecord
  /\ historyData = <<>>
  /\ valuationResult = Null
  /\ error = Null

=============================================================================
